---- MODULE Spec2Model ----
(***************************************************************************)
(* A model of libcbm_py's batched flow engine (LibCBMWrapper.ComputePools  *)
(* and ComputeFlux), of the spinup loop (CBM.spinup with the state advance *)
(* of libcbm.model.moss_c.model.advance_spinup_state) and of CBM.step.     *)
(*                                                                         *)
(* Pool and flux values are integers (1 stands for 1.0); an operation is   *)
(* a block of one sparse matrix per stand, a matrix is a set of            *)
(* coordinate triples <<source, sink, value>> as SetOp takes them, and     *)
(* every cell that no triple names is 0.  A value that is a fraction is    *)
(* written <<source, sink, numerator, denominator>>.                       *)
(***************************************************************************)
EXTENDS Integers, Sequences, FiniteSets, TLC

(***************************************************************************)
(* Bounds of the model.                                                    *)
(***************************************************************************)
NStands == 2
MaxOps == 2
MaxReturnInterval == 2
MaxRotations == 2
MaxSteps == 2

Stands == 1..NStands

(***************************************************************************)
(* Pools, matrices and the row-times-matrix product.                       *)
(***************************************************************************)
Pools == {"Input", "Biomass", "Slow", "CO2"}

Row(i, b, s, c) ==
    [p \in Pools |-> CASE p = "Input" -> i
                       [] p = "Biomass" -> b
                       [] p = "Slow" -> s
                       [] OTHER -> c]

RECURSIVE SetSum(_, _)
SetSum(S, f) ==
    IF S = {} THEN 0
    ELSE LET x == CHOOSE y \in S : TRUE
         IN  f[x] + SetSum(S \ {x}, f)

\* The value of cell (i, j) of a matrix given as coordinate triples.
Coefficient(M, i, j) ==
    IF \E t \in M : t[1] = i /\ t[2] = j
    THEN (CHOOSE t \in M : t[1] = i /\ t[2] = j)[3]
    ELSE 0

Denominator(M, i, j) ==
    IF \E t \in M : t[1] = i /\ t[2] = j /\ Len(t) = 4
    THEN (CHOOSE t \in M : t[1] = i /\ t[2] = j /\ Len(t) = 4)[4]
    ELSE 1

\* The amount x of pool i that cell (i, j) of the matrix sends to pool j.
Flow(x, M, i, j) == (x * Coefficient(M, i, j)) \div Denominator(M, i, j)

\* pools[s,:] = np.matmul(pools[s,:], M)
MatMul(row, M) ==
    [j \in Pools |-> SetSum(Pools, [i \in Pools |-> Flow(row[i], M, i, j)])]

Identity == {<<p, p, 1>> : p \in Pools}

\* Growth: Input feeds Biomass, every pool keeps its content.
Grow == Identity \cup {<<"Input", "Biomass", 1>>}

\* Growth written as the moss annual-process matrix is: flows out of Input
\* and no (Input, Input) triple, so the Input cell is 0 after the product.
GrowNoInput == (Identity \ {<<"Input", "Input", 1>>}) \cup {<<"Input", "Biomass", 1>>}

\* Turnover: all Biomass moves to Slow.
Turnover == (Identity \ {<<"Biomass", "Biomass", 1>>}) \cup {<<"Biomass", "Slow", 1>>}

\* Decay: all Slow is emitted to CO2.
Decay == (Identity \ {<<"Slow", "Slow", 1>>}) \cup {<<"Slow", "CO2", 1>>}

\* Disturbance matrices by disturbance type; type 0 is no disturbance.
Burn ==
    {<<"Input", "Input", 1>>, <<"Biomass", "CO2", 1>>, <<"Slow", "CO2", 1>>,
     <<"CO2", "CO2", 1>>}

Clearcut ==
    {<<"Input", "Input", 1>>, <<"Biomass", "Slow", 1>>, <<"Slow", "Slow", 2>>,
     <<"CO2", "CO2", 1>>}

\* Matrices of a single triple, by name: any cell, with the value 1, 2 or 1/2.
TripleValues == {<<1, 1>>, <<2, 1>>, <<1, 2>>}

TripleName(i, j, v) == i \o ">" \o j \o "*" \o ToString(v[1]) \o "/" \o ToString(v[2])

TripleMatrices ==
    LET cells == Pools \X Pools \X TripleValues
        names == {TripleName(c[1], c[2], c[3]) : c \in cells}
    IN  [n \in names |->
            LET c == CHOOSE c \in cells : TripleName(c[1], c[2], c[3]) = n
            IN  {<<c[1], c[2], c[3][1], c[3][2]>>}]

\* Half of Input stays, half goes to Biomass.
HalfSplit == {<<"Input", "Input", 1, 2>>, <<"Input", "Biomass", 1, 2>>}

\* An operation block names one matrix per stand.
Matrix(name) ==
    CASE name \in DOMAIN TripleMatrices -> TripleMatrices[name]
      [] name = "HalfSplit" -> HalfSplit
      [] name = "Grow" -> Grow
      [] name = "GrowNoInput" -> GrowNoInput
      [] name = "Turnover" -> Turnover
      [] name = "Decay" -> Decay
      [] name = "Burn" -> Burn
      [] name = "Clearcut" -> Clearcut
      [] OTHER -> Identity

(***************************************************************************)
(* Operations, processes and flux indicators.                              *)
(***************************************************************************)
opNames ==
    <<"growth", "snag_turnover", "biomass_turnover", "dom_decay", "slow_decay",
      "slow_mixing", "disturbance">>

\* The elements of a sequence.
Range(seq) == {seq[i] : i \in 1..Len(seq)}

OpIds == {opNames[i] : i \in 1..Len(opNames)}

\* Mutant: the disturbance operator carries the tag of growth and turnover.
opProcesses_shared ==
    [x \in OpIds |->
        CASE x \in {"growth", "snag_turnover", "biomass_turnover", "disturbance"} -> 1
          [] OTHER -> 2]

opProcesses ==
    [x \in OpIds |->
        CASE x \in {"growth", "snag_turnover", "biomass_turnover"} -> 1
          [] x \in {"dom_decay", "slow_decay", "slow_mixing"} -> 2
          [] OTHER -> 3]

Processes == {1, 2, 3}

\* The flux_indicators of the configuration passed to Initialize.
FluxIndicators ==
    [f \in {"NPP", "TurnoverInput", "DecayEmission", "DisturbanceEmission"} |->
        CASE f = "NPP" ->
               [process_id |-> 1, source_pools |-> {"Input"}, sink_pools |-> {"Biomass"}]
          [] f = "TurnoverInput" ->
               [process_id |-> 1, source_pools |-> {"Biomass"}, sink_pools |-> {"Slow"}]
          [] f = "DecayEmission" ->
               [process_id |-> 2, source_pools |-> {"Slow"}, sink_pools |-> {"CO2"}]
          [] OTHER ->
               [process_id |-> 3, source_pools |-> {"Biomass", "Slow"},
                sink_pools |-> {"CO2"}]]

Indicators == DOMAIN FluxIndicators

None == "None"

\* An enabled argument: a vector of ints, or none given (enabled=None).
Vector(v) == [given |-> TRUE, v |-> v]

NoVector == [given |-> FALSE, v |-> [s \in Stands |-> 0]]

\* self.handle after a successful Initialize, and the kernel that gave it:
\* the handle is live, the log of entry points is empty.
LiveHandle == "handle"

LiveKernel == [live |-> TRUE, entered |-> <<>>, freed |-> <<>>]

(***************************************************************************)
(* State.                                                                  *)
(***************************************************************************)
VARIABLES
    pools,           \* n_stands by n_pools matrix, updated in place by the kernel
    flux,            \* n_stands by n_flux_indicators matrix
    enabled,         \* variables.enabled / variables.state.enabled
    opStore,         \* matrix block of every operation id: one matrix per stand
    call,            \* arguments of the kernel call in flight and its position
    pc,              \* position of the calling program
    err,             \* the exception the last wrapper call raised, or None
    call_entry,      \* pools, flux and arguments as they were when the call was made
    allocated,       \* ids of the matrix blocks allocated and not yet freed
    spinup_state,    \* variables.spinup_state
    age,             \* variables.age
    rotation,        \* variables.rotation
    slowPools,       \* variables.slowPools: this rotation's slow pool
    lastRotationSlowC,   \* variables.lastRotationSlowC
    disturbance_types,   \* variables.disturbance_types
    iteration,       \* the loop counter of spinup
    inventory,       \* per stand: spatial_unit and the two disturbance types
    parameters,      \* per stand: return_interval, max_rotations, disturbance_type
    entry_pools,     \* variables.pools as the step in progress found them
    handle,          \* self.handle of the wrapper
    kernel           \* the kernel's side: is the handle live, entry points called

engineVars ==
    <<pools, flux, enabled, opStore, call, pc, err, call_entry, allocated>>

spinupVars ==
    <<spinup_state, age, rotation, slowPools, lastRotationSlowC, disturbance_types,
      iteration>>

inputVars == <<inventory, parameters, entry_pools>>

wrapperVars == <<handle, kernel>>

vars == <<engineVars, spinupVars, inputVars, wrapperVars>>

(***************************************************************************)
(* LibCBMWrapper.ComputePools and ComputeFlux: what the wrapper hands to   *)
(* the kernel.  ops_p holds the ids in the order of the caller's list.     *)
(***************************************************************************)
Reverse(q) == [i \in 1..Len(q) |-> q[Len(q) + 1 - i]]

\* Mutant: the ids are copied into ops_p back to front.
ComputePools_reversed(ops, en) ==
    [raise |-> None, ops_p |-> Reverse(ops), op_process_p |-> <<>>, n_ops |-> Len(ops),
     enabled |-> en, fluxMat |-> FALSE]

ComputePools(ops, en) ==
    [raise |-> None, ops_p |-> ops, op_process_p |-> <<>>, n_ops |-> Len(ops),
     enabled |-> en, fluxMat |-> FALSE]

\* Mutant: the enabled vector is not handed to the kernel.
ComputeFlux_noEnabled(ops, op_processes, en) ==
    IF Len(op_processes) # Len(ops)
    THEN [raise |-> "ValueError", ops_p |-> <<>>, op_process_p |-> <<>>, n_ops |-> 0,
          enabled |-> NoVector, fluxMat |-> FALSE]
    ELSE [raise |-> None, ops_p |-> ops, op_process_p |-> op_processes,
          n_ops |-> Len(ops), enabled |-> NoVector, fluxMat |-> TRUE]

\* Mutant: the process ids are copied into op_process_p back to front.
ComputeFlux_tagsReversed(ops, op_processes, en) ==
    IF Len(op_processes) # Len(ops)
    THEN [raise |-> "ValueError", ops_p |-> <<>>, op_process_p |-> <<>>, n_ops |-> 0,
          enabled |-> NoVector, fluxMat |-> FALSE]
    ELSE [raise |-> None, ops_p |-> ops, op_process_p |-> Reverse(op_processes),
          n_ops |-> Len(ops), enabled |-> en, fluxMat |-> TRUE]

\* Mutant: the lengths are not compared.
ComputeFlux_unchecked(ops, op_processes, en) ==
    [raise |-> None, ops_p |-> ops, op_process_p |-> op_processes,
     n_ops |-> Len(ops), enabled |-> en, fluxMat |-> TRUE]

ComputeFlux(ops, op_processes, en) ==
    IF Len(op_processes) # Len(ops)
    THEN [raise |-> "ValueError", ops_p |-> <<>>, op_process_p |-> <<>>, n_ops |-> 0,
          enabled |-> NoVector, fluxMat |-> FALSE]
    ELSE [raise |-> None, ops_p |-> ops, op_process_p |-> op_processes,
          n_ops |-> Len(ops), enabled |-> en, fluxMat |-> TRUE]

NoCall == ComputePools(<<>>, NoVector) @@ [i |-> 1, ret |-> "idle"]

\* No call in flight: nothing recorded of its entry.
NoEntry ==
    [pools |-> <<>>, flux |-> <<>>, ops |-> <<>>, op_processes |-> <<>>,
     enabled |-> NoVector, fluxMat |-> FALSE]

(***************************************************************************)
(* The kernel's loop, one operator per step:                               *)
(*     for op in ops: for s in n_stands: pools[s,:] = pools[s,:] . M(op,s) *)
(***************************************************************************)
\* 0 is disabled, !0 is enabled; with no vector all flows are enabled.
StandEnabled(en, s) == (~en.given) \/ en.v[s] # 0

\* The mass one operator moves into one indicator for one stand.
IndicatorFlow(row, M, proc, f) ==
    IF FluxIndicators[f].process_id # proc THEN 0
    ELSE SetSum(FluxIndicators[f].source_pools \X FluxIndicators[f].sink_pools,
                [pr \in Pools \X Pools |-> Flow(row[pr[1]], M, pr[1], pr[2])])

KernelFluxRow(frow, row, M, proc) ==
    [f \in Indicators |-> frow[f] + IndicatorFlow(row, M, proc, f)]

\* Mutant: the product is added to the row.
KernelPoolRow_added(row, M) == [j \in Pools |-> row[j] + MatMul(row, M)[j]]

\* Mutant: what a cell sends from pool i to another pool is taken from pool i.
KernelPoolRow_conserving(row, M) ==
    [j \in Pools |->
        row[j] + SetSum(Pools \ {j}, [i \in Pools |-> Flow(row[i], M, i, j)])
               - SetSum(Pools \ {j}, [k \in Pools |-> Flow(row[j], M, j, k)])]

KernelPoolRow(row, M) == MatMul(row, M)

\* Mutant: a call that tracks flux takes what a cell sends out of its pool.
TrackedPoolRow_drained(row, M, tracked) ==
    IF tracked THEN KernelPoolRow_conserving(row, M) ELSE KernelPoolRow(row, M)

\* The pool update of a call, flux-tracked or not: ComputeFlux "performs the
\* same operation as ComputePools".
TrackedPoolRow(row, M, tracked) == KernelPoolRow(row, M)

LibCBM_Compute ==
    /\ pc = "compute"
    /\ call.i <= call.n_ops
    /\ LET op == call.ops_p[call.i]
       IN  /\ pools' = [s \in Stands |->
                          IF StandEnabled(call.enabled, s)
                          THEN TrackedPoolRow(pools[s], Matrix(opStore[op][s]),
                                              call.fluxMat)
                          ELSE pools[s]]
           /\ flux' = [s \in Stands |->
                          IF call.fluxMat /\ StandEnabled(call.enabled, s)
                          THEN KernelFluxRow(flux[s], pools[s], Matrix(opStore[op][s]),
                                             call.op_process_p[call.i])
                          ELSE flux[s]]
    /\ call' = [call EXCEPT !.i = @ + 1]
    /\ UNCHANGED wrapperVars
    /\ UNCHANGED <<enabled, opStore, allocated, pc, err, call_entry, spinupVars, inputVars>>

\* The kernel call is over: control returns to the caller.
ComputeReturn ==
    /\ pc \in {"compute", "raised"}
    /\ call.i > call.n_ops
    /\ pc' = call.ret
    /\ call' = NoCall
    /\ call_entry' = NoEntry
    /\ UNCHANGED wrapperVars
    /\ UNCHANGED <<pools, flux, enabled, opStore, allocated, err, spinupVars, inputVars>>

\* Mutant: the caller goes on as if the call had returned.
Propagate_swallowed(ret) == ret

\* Where control goes when a wrapper call raises inside spinup or step: neither
\* has a handler, so the exception leaves the call and nothing after it runs.
Propagate(ret) == "failed"

\* The kernel reports an error while it applies the operators, the pools and
\* flux being as the operators applied so far left them:
\*     if self.err.Error != 0: raise RuntimeError(...)
KernelFailure ==
    /\ pc = "compute"
    /\ call.i <= call.n_ops
    /\ err' = "RuntimeError"
    /\ pc' = Propagate(call.ret)
    /\ call' = NoCall
    /\ call_entry' = NoEntry
    /\ UNCHANGED wrapperVars
    /\ UNCHANGED <<pools, flux, enabled, opStore, allocated, spinupVars, inputVars>>

\* Hand a marshalled call to the kernel, or raise what the wrapper raises.
Invoke(args, ret, given) ==
    /\ call_entry' = [pools |-> pools, flux |-> flux, ops |-> given.ops,
                      op_processes |-> given.op_processes, enabled |-> given.enabled,
                      fluxMat |-> given.fluxMat]
    /\ IF args.raise # None
       THEN /\ err' = args.raise
            /\ pc' = "raised"
            /\ call' = [NoCall EXCEPT !.ret = ret]
       ELSE /\ err' = None
            /\ pc' = "compute"
            /\ call' = args @@ [i |-> 1, ret |-> ret]

(***************************************************************************)
(* The inputs of a stand: return_interval and max_rotations (parameters),  *)
(* spatial_unit and the historic and last-pass disturbance types           *)
(* (inventory).  The profiles are numbered so that a batch can be drawn    *)
(* in non-decreasing order: stands do not read one another's rows.         *)
(***************************************************************************)
NProfiles == MaxReturnInterval * (MaxRotations + 1) * 2

Profile(k) ==
    [return_interval |-> 1 + (k % MaxReturnInterval),
     max_rotations |-> (k \div MaxReturnInterval) % (MaxRotations + 1),
     spatial_unit |-> 1 + (k \div (MaxReturnInterval * (MaxRotations + 1))),
     historic_disturbance_type |-> 1,
     last_pass_disturbance_type |-> 2,
     disturbance_type |-> 0,
     classifiers |-> 1]

\* Every stand has a yield curve, or the last stand of the batch has none.
CurveChoices ==
    {[s \in Stands |-> 1], [s \in Stands |-> IF s = NStands THEN 0 ELSE 1]}

\* The disturbance types a step may be given: none, two with a matrix and one
\* without.
StepTypes == 0..3

Batches ==
    {b \in [Stands -> 0..(NProfiles - 1)] :
        \A s \in Stands : s + 1 \in Stands => b[s] <= b[s + 1]}

(***************************************************************************)
(* A direct caller of the engine, which makes two successive calls: any    *)
(* list of operations, any tags, any enabled vector.                       *)
(***************************************************************************)
EngineOps == {"growth", "disturbance"}

OpLists == UNION {[1..n -> EngineOps] : n \in 0..MaxOps}

\* Enabled arguments: none given, only stand 1 enabled, only stand 1 disabled.
Masks ==
    {NoVector} \cup
    {Vector([s \in Stands |-> IF s = 1 THEN b ELSE 1 - b]) : b \in {0, 1}}

\* Tag lists a caller may pass: the model's own tags, one tag for all, or a
\* list of the wrong length.
TagLists(ops) ==
    {[i \in 1..Len(ops) |-> opProcesses[ops[i]]], [i \in 1..Len(ops) |-> 3],
     <<1, 1, 1, 1>>}

EngineRows == {Row(1, 0, 0, 0), Row(1, 2, 1, 0)}

EngineStore ==
    [x \in OpIds |->
        [s \in Stands |->
            CASE x = "growth" -> IF s = 1 THEN "Grow" ELSE "GrowNoInput"
              [] x = "biomass_turnover" -> "Turnover"
              [] x = "disturbance" -> IF s = 1 THEN "Burn" ELSE "Clearcut"
              [] x = "slow_decay" -> "Decay"
              [] OTHER -> "Identity"]]

ZeroFlux == [s \in Stands |-> [f \in Indicators |-> 0]]

EngineInit ==
    /\ pools \in {[s \in Stands |-> r] : r \in EngineRows}
    /\ flux \in {ZeroFlux, [s \in Stands |-> [f \in Indicators |-> 2]]}
    /\ enabled = [s \in Stands |-> 1]
    /\ opStore = EngineStore
    /\ allocated = OpIds
    /\ call = NoCall
    /\ pc = "first"
    /\ err = None
    /\ handle = LiveHandle
    /\ kernel = LiveKernel
    /\ call_entry = NoEntry
    /\ spinup_state = [s \in Stands |-> "AnnualProcesses"]
    /\ age = [s \in Stands |-> 0]
    /\ rotation = [s \in Stands |-> 0]
    /\ slowPools = [s \in Stands |-> 0]
    /\ lastRotationSlowC = [s \in Stands |-> 0]
    /\ disturbance_types = [s \in Stands |-> 0]
    /\ iteration = 0
    /\ inventory = [s \in Stands |-> Profile(0)]
    /\ parameters = [s \in Stands |-> Profile(0)]
    /\ entry_pools = pools

AfterCall(p) == IF p = "first" THEN "second" ELSE "done"

EngineComputePools ==
    /\ pc \in {"first", "second"}
    /\ \E ops \in OpLists, en \in Masks :
          Invoke(ComputePools(ops, en), AfterCall(pc),
                 [ops |-> ops, op_processes |-> <<>>, enabled |-> en, fluxMat |-> FALSE])
    /\ UNCHANGED wrapperVars
    /\ UNCHANGED <<pools, flux, enabled, opStore, allocated, spinupVars, inputVars>>

EngineComputeFlux ==
    /\ pc \in {"first", "second"}
    /\ \E ops \in OpLists, en \in Masks :
          \E tags \in TagLists(ops) :
             Invoke(ComputeFlux(ops, tags, en), AfterCall(pc),
                    [ops |-> ops, op_processes |-> tags, enabled |-> en,
                     fluxMat |-> TRUE])
    /\ UNCHANGED wrapperVars
    /\ UNCHANGED <<pools, flux, enabled, opStore, allocated, spinupVars, inputVars>>

EngineNext ==
    \/ EngineComputePools
    \/ EngineComputeFlux
    \/ LibCBM_Compute
    \/ KernelFailure
    \/ ComputeReturn

EngineSpec == EngineInit /\ [][EngineNext]_vars

(***************************************************************************)
(* A caller that sets one block to a matrix of its own and applies a list  *)
(* of operations in one ComputePools call, as moss_c compute_pools does.   *)
(* Pool values count in parts of 1.0 fine enough for every product of the  *)
(* call to be whole: Unit stands for 1.0.                                  *)
(***************************************************************************)
Unit == 2 ^ (MaxOps + 1)

ApplyRows == {Row(Unit, 0, 0, 0), Row(Unit, 2 * Unit, Unit, 0)}

\* The matrices the caller may set: any single triple, the identity, or the
\* even split of Input.
ApplyMatrices == DOMAIN TripleMatrices \cup {"Identity", "HalfSplit"}

\* "growth" holds the caller's matrix, "dom_decay" the identity.
ApplyOps == {"growth", "dom_decay"}

ApplyLists == UNION {[1..n -> ApplyOps] : n \in 1..MaxOps}

ApplyInit ==
    /\ pools \in [Stands -> ApplyRows]
    /\ flux = ZeroFlux
    /\ enabled = [s \in Stands |-> 1]
    /\ \E m \in ApplyMatrices :
          opStore = [x \in OpIds |->
                        [s \in Stands |-> IF x = "growth" THEN m ELSE "Identity"]]
    /\ allocated = OpIds
    /\ call = NoCall
    /\ pc = "first"
    /\ err = None
    /\ handle = LiveHandle
    /\ kernel = LiveKernel
    /\ call_entry = NoEntry
    /\ spinup_state = [s \in Stands |-> "AnnualProcesses"]
    /\ age = [s \in Stands |-> 0]
    /\ rotation = [s \in Stands |-> 0]
    /\ slowPools = [s \in Stands |-> 0]
    /\ lastRotationSlowC = [s \in Stands |-> 0]
    /\ disturbance_types = [s \in Stands |-> 0]
    /\ iteration = 0
    /\ inventory = [s \in Stands |-> Profile(0)]
    /\ parameters = [s \in Stands |-> Profile(0)]
    /\ entry_pools = pools

\* dll.compute_pools(op_ids, pools)
ApplyComputePools ==
    /\ pc = "first"
    /\ \E ops \in ApplyLists :
          Invoke(ComputePools(ops, NoVector), "done",
                 [ops |-> ops, op_processes |-> <<>>, enabled |-> NoVector,
                  fluxMat |-> FALSE])
    /\ UNCHANGED wrapperVars
    /\ UNCHANGED <<pools, flux, enabled, opStore, allocated, spinupVars, inputVars>>

ApplyNext ==
    \/ ApplyComputePools
    \/ LibCBM_Compute
    \/ ComputeReturn

ApplySpec == ApplyInit /\ [][ApplyNext]_vars

(***************************************************************************)
(* The operator builders of the kernel: which matrix each stand gets.      *)
(***************************************************************************)
GrowthMatrix(spatial_unit) == IF spatial_unit = 1 THEN "Grow" ELSE "GrowNoInput"

BiomassTurnoverMatrix(spatial_unit) == "Turnover"

SnagTurnoverMatrix(spatial_unit) == "Identity"

SlowDecayMatrix(spatial_unit) == IF spatial_unit = 1 THEN "Identity" ELSE "Decay"

DisturbanceMatrix(disturbance_type) ==
    CASE disturbance_type = 1 -> "Burn"
      [] disturbance_type = 2 -> "Clearcut"
      [] OTHER -> "Identity"

\* Disturbance types that have a matrix (0 is no disturbance) and classifier
\* sets that have a yield curve.
KnownDisturbanceTypes == {0, 1, 2}

CurveClassifiers == {1}

\* Mutant: a disturbance type without a matrix is taken for no disturbance.
DisturbanceOpsFail_never(disturbance_type) == FALSE

\* The kernel reports an error from GetDisturbanceOps when a stand's
\* disturbance type has no matrix, and from GetMerchVolumeGrowthOps when a
\* stand's classifier set has no yield curve.
DisturbanceOpsFail(disturbance_type) ==
    \E s \in Stands : disturbance_type[s] \notin KnownDisturbanceTypes

GrowthOpsFail == \E s \in Stands : inventory[s].classifiers \notin CurveClassifiers

\* A builder raises: if self.err.Error != 0: raise RuntimeError(...)
RaiseRuntimeError(ret) ==
    /\ err' = "RuntimeError"
    /\ pc' = Propagate(ret)
    /\ call' = NoCall
    /\ call_entry' = NoEntry

\* The wrapper's builders: each fills the blocks whose ids it is given.
GetMerchVolumeGrowthOps(store, growth_op) ==
    [store EXCEPT ![growth_op] = [s \in Stands |-> GrowthMatrix(inventory[s].spatial_unit)]]

GetTurnoverOps(store, biomass_turnover_op, snag_turnover_op) ==
    [store EXCEPT
        ![biomass_turnover_op] =
            [s \in Stands |-> BiomassTurnoverMatrix(inventory[s].spatial_unit)],
        ![snag_turnover_op] =
            [s \in Stands |-> SnagTurnoverMatrix(inventory[s].spatial_unit)]]

GetDecayOps(store, dom_decay_op, slow_decay_op, slow_mixing_op) ==
    [store EXCEPT
        ![dom_decay_op] = [s \in Stands |-> "Identity"],
        ![slow_decay_op] = [s \in Stands |-> SlowDecayMatrix(inventory[s].spatial_unit)],
        ![slow_mixing_op] = [s \in Stands |-> "Identity"]]

GetDisturbanceOps(store, disturbance_op, disturbance_type) ==
    [store EXCEPT
        ![disturbance_op] = [s \in Stands |-> DisturbanceMatrix(disturbance_type[s])]]

(***************************************************************************)
(* libcbm.model.moss_c.model: the spinup state advance.                    *)
(***************************************************************************)
Abs(x) == IF x < 0 THEN -x ELSE x

\* abs((last - this) / (last + this) / 2.0) < 0.001.  With a zero divisor the
\* quotient is nan or inf and the comparison is False.
small_slow_diff(last_rotation_slow, this_rotation_slow) ==
    /\ last_rotation_slow + this_rotation_slow # 0
    /\ 1000 * Abs(last_rotation_slow - this_rotation_slow)
          < 2 * Abs(last_rotation_slow + this_rotation_slow)

\* The stands for which an advance computes _small_slow_diff: np.where is
\* handed the finished arrays of its branches, so the quotient is computed for
\* every element of the batch, whatever its state and age, before anything is
\* selected.
TestedStands == Stands

\* Python's b | n for a bool b and an int n >= 0.
BitOr(b, n) == IF b /\ n % 2 = 0 THEN n + 1 ELSE n

\* The test of the innermost np.where: | binds tighter than >, so the
\* comparison is (small_slow_diff | rotation_num) > max_rotations.
last_pass_condition(rotation_num, max_rotations, last_rotation_slow, this_rotation_slow) ==
    BitOr(small_slow_diff(last_rotation_slow, this_rotation_slow), rotation_num)
        > max_rotations

\* Mutant: a stand that is End begins again.
advance_spinup_state_restart(state, stand_age, return_interval, rotation_num, max_rotations, last_rotation_slow, this_rotation_slow) ==
    IF state = "AnnualProcesses"
    THEN IF stand_age >= return_interval
         THEN IF last_pass_condition(rotation_num, max_rotations, last_rotation_slow,
                                     this_rotation_slow)
              THEN "LastPassEvent"
              ELSE "HistoricalEvent"
         ELSE "AnnualProcesses"
    ELSE IF state \in {"HistoricalEvent", "End"} THEN "AnnualProcesses" ELSE "End"

advance_spinup_state(state, stand_age, return_interval, rotation_num, max_rotations, last_rotation_slow, this_rotation_slow) ==
    IF state = "AnnualProcesses"
    THEN IF stand_age >= return_interval
         THEN IF last_pass_condition(rotation_num, max_rotations, last_rotation_slow,
                                     this_rotation_slow)
              THEN "LastPassEvent"
              ELSE "HistoricalEvent"
         ELSE "AnnualProcesses"
    ELSE IF state = "HistoricalEvent" THEN "AnnualProcesses" ELSE "End"

(***************************************************************************)
(* CBM.spinup.                                                             *)
(***************************************************************************)
\* Mutant: growth is applied once, and the disturbance first.
opSchedule_disturbanceFirst ==
    <<"disturbance", "growth", "snag_turnover", "biomass_turnover", "dom_decay",
      "slow_decay", "slow_mixing">>

opSchedule ==
    <<"growth", "snag_turnover", "biomass_turnover", "growth", "dom_decay",
      "slow_decay", "slow_mixing", "disturbance">>

\* The state each stand has after AdvanceSpinupState.
AdvancedState(s) ==
    advance_spinup_state(spinup_state[s], age[s], parameters[s].return_interval,
                         rotation[s], parameters[s].max_rotations,
                         lastRotationSlowC[s], slowPools[s])

\* variables.pools[:, 0] = 1.0, the blocks are allocated, the turnover and
\* decay operators are built once.
SpinupBegin ==
    /\ pc = "spinup"
    /\ pools' = [s \in Stands |-> [pools[s] EXCEPT !["Input"] = 1]]
    /\ opStore' = GetDecayOps(
                      GetTurnoverOps(opStore, "snag_turnover", "biomass_turnover"),
                      "dom_decay", "slow_decay", "slow_mixing")
    /\ iteration' = 0
    /\ pc' = "advance"
    /\ allocated' = OpIds
    /\ UNCHANGED wrapperVars
    /\ UNCHANGED <<flux, enabled, call, err, call_entry, spinup_state, age, rotation,
                   slowPools, lastRotationSlowC, disturbance_types, inputVars>>

\* Mutant: a stand in its annual processes is disturbed as in a historical
\* event.
SpinupDisturbanceType_always(state, inv) ==
    CASE state = "LastPassEvent" -> inv.last_pass_disturbance_type
      [] OTHER -> inv.historic_disturbance_type

\* Mutant: the last pass uses the historical disturbance type.
SpinupDisturbanceType_historicLastPass(state, inv) ==
    CASE state \in {"HistoricalEvent", "LastPassEvent"} -> inv.historic_disturbance_type
      [] OTHER -> 0

\* The disturbance type AdvanceSpinupState writes for a stand: the historic
\* one, the last-pass one, or none.
SpinupDisturbanceType(state, inv) ==
    CASE state = "HistoricalEvent" -> inv.historic_disturbance_type
      [] state = "LastPassEvent" -> inv.last_pass_disturbance_type
      [] OTHER -> 0

\* The kernel's AdvanceSpinupState: every stand's state is advanced, a stand
\* leaving HistoricalEvent has one more rotation, a stand leaving
\* AnnualProcesses for an event records its slow pool, the disturbance type of
\* the year is the historic one, the last-pass one or none, and a stand is
\* enabled unless it is End.  n_finished counts the stands at End.
AdvanceSpinupState ==
    [spinup_state |-> [s \in Stands |-> AdvancedState(s)],
     rotation |-> [s \in Stands |->
                      IF spinup_state[s] = "HistoricalEvent"
                      THEN rotation[s] + 1 ELSE rotation[s]],
     lastRotationSlowC |->
         [s \in Stands |->
             IF spinup_state[s] = "AnnualProcesses"
                /\ AdvancedState(s) # "AnnualProcesses"
             THEN slowPools[s] ELSE lastRotationSlowC[s]],
     disturbance_types |->
         [s \in Stands |-> SpinupDisturbanceType(AdvancedState(s), inventory[s])],
     enabled |-> [s \in Stands |-> IF AdvancedState(s) = "End" THEN 0 ELSE 1],
     n_finished |-> Cardinality({s \in Stands : AdvancedState(s) = "End"})]

\* Mutant: a disturbed stand keeps its age.
EndSpinupStep_ageKept ==
    [age |-> [s \in Stands |->
                 IF spinup_state[s] = "End" THEN age[s] ELSE age[s] + 1],
     slowPools |-> [s \in Stands |->
                       IF spinup_state[s] = "End" THEN slowPools[s]
                       ELSE pools[s]["Slow"]]]

\* The kernel's EndSpinupStep: a disturbed stand is 0 years old, any other
\* unfinished stand a year older; the slow pool of the year is recorded.
EndSpinupStep ==
    [age |-> [s \in Stands |->
                 CASE spinup_state[s] = "End" -> age[s]
                   [] spinup_state[s] \in {"HistoricalEvent", "LastPassEvent"} -> 0
                   [] OTHER -> age[s] + 1],
     slowPools |-> [s \in Stands |->
                       IF spinup_state[s] = "End" THEN slowPools[s]
                       ELSE pools[s]["Slow"]]]

\* Mutant: the loop is not left.
AllFinished_never(n_finished) == FALSE

\* if n_finished == n_stands: break
AllFinished(n_finished) == n_finished = NStands

\* n_finished = AdvanceSpinupState(...); if n_finished == n_stands: break
SpinupAdvance ==
    /\ pc = "advance"
    /\ spinup_state' = AdvanceSpinupState.spinup_state
    /\ rotation' = AdvanceSpinupState.rotation
    /\ lastRotationSlowC' = AdvanceSpinupState.lastRotationSlowC
    /\ disturbance_types' = AdvanceSpinupState.disturbance_types
    /\ enabled' = AdvanceSpinupState.enabled
    /\ pc' = IF AllFinished(AdvanceSpinupState.n_finished) THEN "free" ELSE "build"
    /\ UNCHANGED wrapperVars
    /\ UNCHANGED <<pools, flux, opStore, allocated, call, err, call_entry, age, slowPools,
                   iteration, inputVars>>

\* The body of SpinupCompute, given the enabled argument of ComputePools.
SpinupComputeWith(en) ==
    /\ IF GrowthOpsFail \/ DisturbanceOpsFail(disturbance_types)
       THEN /\ RaiseRuntimeError("end_step")
            /\ UNCHANGED opStore
       ELSE /\ opStore' = GetDisturbanceOps(GetMerchVolumeGrowthOps(opStore, "growth"),
                                            "disturbance", disturbance_types)
            /\ Invoke(ComputePools(opSchedule, en), "end_step",
                      [ops |-> opSchedule, op_processes |-> <<>>, enabled |-> en,
                       fluxMat |-> FALSE])
    /\ UNCHANGED wrapperVars
    /\ UNCHANGED <<allocated, pools, flux, enabled, spinupVars, inputVars>>

\* Mutant: the schedule is applied without the enabled vector.
SpinupCompute_noMask ==
    /\ pc = "build"
    /\ SpinupComputeWith(NoVector)

\* The growth and disturbance operators are built, then
\* ComputePools([ops[x] for x in opSchedule], variables.pools, variables.enabled).
SpinupCompute ==
    /\ pc = "build"
    /\ SpinupComputeWith(Vector(enabled))

\* EndSpinupStep(...), then iteration = iteration + 1.
SpinupEndStep ==
    /\ pc = "end_step"
    /\ age' = EndSpinupStep.age
    /\ slowPools' = EndSpinupStep.slowPools
    /\ iteration' = iteration + 1
    /\ pc' = "advance"
    /\ UNCHANGED wrapperVars
    /\ UNCHANGED <<pools, flux, enabled, opStore, allocated, call, err, call_entry, spinup_state,
                   rotation, lastRotationSlowC, disturbance_types, inputVars>>

\* Mutant: the blocks are freed by the schedule, which names growth twice.
FreedOps_schedule == opSchedule

\* The blocks a call passes to FreeOp, in order:
\*     for x in self.opNames: self.dll.FreeOp(ops[x])
FreedOps == opNames

\* The kernel after these FreeOp calls, kernel.freed being the blocks the
\* last spinup or step has freed.
FreeOps == [kernel EXCEPT !.freed = FreedOps]

\* for x in self.opNames: self.dll.FreeOp(ops[x]); return
SpinupReturn ==
    /\ pc = "free"
    /\ pc' = "returned"
    /\ allocated' = allocated \ Range(FreedOps)
    /\ kernel' = FreeOps
    /\ UNCHANGED handle
    /\ UNCHANGED <<pools, flux, enabled, opStore, call, err, call_entry, spinupVars,
                   inputVars>>

\* The iteration cap of the specification; CBM.spinup has no such setting.
IterationCap == 3

SpinupInit ==
    /\ pools = [s \in Stands |-> Row(0, 0, 0, 0)]
    /\ flux = ZeroFlux
    /\ enabled = [s \in Stands |-> 1]
    /\ opStore = [x \in OpIds |-> [s \in Stands |-> "Identity"]]
    /\ allocated = {}
    /\ call = NoCall
    /\ pc = "spinup"
    /\ err = None
    /\ handle = LiveHandle
    /\ kernel = LiveKernel
    /\ call_entry = NoEntry
    /\ spinup_state = [s \in Stands |-> "AnnualProcesses"]
    /\ age = [s \in Stands |-> 0]
    /\ rotation = [s \in Stands |-> 0]
    /\ slowPools = [s \in Stands |-> 0]
    /\ lastRotationSlowC = [s \in Stands |-> 0]
    /\ disturbance_types = [s \in Stands |-> 0]
    /\ iteration = 0
    /\ \E b \in Batches : \E c \in CurveChoices :
          /\ inventory = [s \in Stands |-> [Profile(b[s]) EXCEPT !.classifiers = c[s]]]
          /\ parameters = [s \in Stands |-> Profile(b[s])]
    /\ entry_pools = pools

SpinupNext ==
    \/ SpinupBegin
    \/ SpinupAdvance
    \/ SpinupCompute
    \/ LibCBM_Compute
    \/ KernelFailure
    \/ ComputeReturn
    \/ SpinupEndStep
    \/ SpinupReturn

SpinupSpec == SpinupInit /\ [][SpinupNext]_vars

(***************************************************************************)
(* CBM.step.                                                               *)
(***************************************************************************)
\* Mutant: the decay operators come before growth and turnover.
annual_process_opSchedule_decayFirst ==
    <<"dom_decay", "slow_decay", "slow_mixing", "growth", "snag_turnover",
      "biomass_turnover", "growth">>

annual_process_opSchedule ==
    <<"growth", "snag_turnover", "biomass_turnover", "growth", "dom_decay",
      "slow_decay", "slow_mixing">>

\* [self.opProcesses[x] for x in schedule]
ProcessesOf(schedule) == [i \in 1..Len(schedule) |-> opProcesses[schedule[i]]]

\* The disturbance type of the year, per stand.
StepDisturbanceTypes == [s \in Stands |-> parameters[s].disturbance_type]

\* The body of StepBegin, given the flux the step starts from and the enabled
\* argument of the disturbance call.
StepBeginWith(flux0, en) ==
    /\ pools' = [s \in Stands |-> [pools[s] EXCEPT !["Input"] = 1]]
    /\ entry_pools' = pools'
    /\ flux' = flux0
    /\ allocated' = OpIds
    /\ IF DisturbanceOpsFail(StepDisturbanceTypes)
       THEN /\ RaiseRuntimeError("annual")
            /\ UNCHANGED opStore
       ELSE /\ opStore' = GetDisturbanceOps(opStore, "disturbance",
                                            StepDisturbanceTypes)
            /\ Invoke(ComputeFlux(<<"disturbance">>, <<opProcesses["disturbance"]>>, en),
                      "annual",
                      [ops |-> <<"disturbance">>,
                       op_processes |-> <<opProcesses["disturbance"]>>,
                       enabled |-> en, fluxMat |-> TRUE])
    /\ UNCHANGED wrapperVars
    /\ UNCHANGED <<enabled, spinupVars, inventory, parameters>>

\* Mutant: the step does not zero flux.
StepBegin_fluxKept ==
    /\ pc = "step"
    /\ StepBeginWith(flux, NoVector)

\* Mutant: the disturbance call is made under state.enabled.
StepBegin_masked ==
    /\ pc = "step"
    /\ StepBeginWith([s \in Stands |-> [f \in Indicators |-> flux[s][f] * 0]],
                     Vector(enabled))

\* variables.pools[:, 0] = 1.0; variables.flux *= 0.0; the stand state is
\* advanced, the disturbance operator is built and applied in a flux call of
\* its own with enabled=None.
StepBegin ==
    /\ pc = "step"
    /\ StepBeginWith([s \in Stands |-> [f \in Indicators |-> flux[s][f] * 0]],
                     NoVector)

\* Mutant: flux is zeroed again before the annual-process call.
StepAnnualProcesses_fluxZeroed ==
    /\ pc = "annual"
    /\ flux' = [s \in Stands |-> [f \in Indicators |-> 0]]
    /\ IF GrowthOpsFail
       THEN /\ RaiseRuntimeError("end_step_of_year")
            /\ UNCHANGED opStore
       ELSE /\ opStore' = GetDecayOps(
                             GetTurnoverOps(GetMerchVolumeGrowthOps(opStore, "growth"),
                                            "snag_turnover", "biomass_turnover"),
                             "dom_decay", "slow_decay", "slow_mixing")
            /\ Invoke(ComputeFlux(annual_process_opSchedule,
                                  ProcessesOf(annual_process_opSchedule),
                                  Vector(enabled)),
                      "end_step_of_year",
                      [ops |-> annual_process_opSchedule,
                       op_processes |-> ProcessesOf(annual_process_opSchedule),
                       enabled |-> Vector(enabled), fluxMat |-> TRUE])
    /\ UNCHANGED wrapperVars
    /\ UNCHANGED <<allocated, pools, enabled, spinupVars, inputVars>>

\* The growth, turnover and decay operators are built, then the annual
\* process operators are applied in one flux call under state.enabled.
StepAnnualProcesses ==
    /\ pc = "annual"
    /\ IF GrowthOpsFail
       THEN /\ RaiseRuntimeError("end_step_of_year")
            /\ UNCHANGED opStore
       ELSE /\ opStore' = GetDecayOps(
                             GetTurnoverOps(GetMerchVolumeGrowthOps(opStore, "growth"),
                                            "snag_turnover", "biomass_turnover"),
                             "dom_decay", "slow_decay", "slow_mixing")
            /\ Invoke(ComputeFlux(annual_process_opSchedule,
                                  ProcessesOf(annual_process_opSchedule),
                                  Vector(enabled)),
                      "end_step_of_year",
                      [ops |-> annual_process_opSchedule,
                       op_processes |-> ProcessesOf(annual_process_opSchedule),
                       enabled |-> Vector(enabled), fluxMat |-> TRUE])
    /\ UNCHANGED wrapperVars
    /\ UNCHANGED <<allocated, pools, flux, enabled, spinupVars, inputVars>>

\* The kernel's EndStep: every stand is a year older.
EndStep == [s \in Stands |-> age[s] + 1]

\* EndStep(...); the blocks are freed and step returns.  The caller takes the
\* next step while there are years left.
StepEnd ==
    /\ pc = "end_step_of_year"
    /\ age' = EndStep
    /\ iteration' = iteration + 1
    /\ pc' = IF iteration + 1 < MaxSteps THEN "step" ELSE "stepped"
    /\ allocated' = allocated \ Range(FreedOps)
    /\ kernel' = FreeOps
    /\ UNCHANGED handle
    /\ UNCHANGED <<pools, flux, enabled, opStore, call, err, call_entry, spinup_state,
                   rotation, slowPools, lastRotationSlowC, disturbance_types, inputVars>>

\* A step reads the spatial unit and the disturbance type of a stand: batches
\* of the first profile of each spatial unit.
StepBatches == {b \in Batches : \A s \in Stands : b[s] \in {0, NProfiles \div 2}}

StepRows == {Row(0, 0, 0, 0), Row(1, 2, 1, 0)}

StepInit ==
    /\ pools \in {[s \in Stands |-> r] : r \in StepRows}
    /\ flux \in {ZeroFlux, [s \in Stands |-> [f \in Indicators |-> 2]]}
    /\ enabled \in [Stands -> {0, 1}]
    /\ opStore = [x \in OpIds |-> [s \in Stands |-> "Identity"]]
    /\ allocated = {}
    /\ call = NoCall
    /\ pc = "step"
    /\ err = None
    /\ handle = LiveHandle
    /\ kernel = LiveKernel
    /\ call_entry = NoEntry
    /\ spinup_state = [s \in Stands |-> "End"]
    /\ age = [s \in Stands |-> 0]
    /\ rotation = [s \in Stands |-> 0]
    /\ slowPools = [s \in Stands |-> 0]
    /\ lastRotationSlowC = [s \in Stands |-> 0]
    /\ disturbance_types = [s \in Stands |-> 0]
    /\ iteration = 0
    /\ \E b \in StepBatches : \E d \in [Stands -> StepTypes] : \E c \in CurveChoices :
          /\ inventory = [s \in Stands |-> [Profile(b[s]) EXCEPT !.classifiers = c[s]]]
          /\ parameters = [s \in Stands |->
                              [Profile(b[s]) EXCEPT !.disturbance_type = d[s]]]
    /\ entry_pools = pools

StepNext ==
    \/ StepBegin
    \/ LibCBM_Compute
    \/ KernelFailure
    \/ ComputeReturn
    \/ StepAnnualProcesses
    \/ StepEnd

StepSpec == StepInit /\ [][StepNext]_vars

(***************************************************************************)
(* Claims about the engine.                                                *)
(***************************************************************************)
\* What the caller asked for: is stand s enabled in the call in flight?
AskedEnabled(s) == (~call_entry.enabled.given) \/ call_entry.enabled.v[s] # 0

\* The operators of the caller's list that the kernel has applied so far.
AppliedOps == SubSeq(call_entry.ops, 1, call.i - 1)

AppliedTags == SubSeq(call_entry.op_processes, 1, call.i - 1)

CallDone == pc = "compute" /\ call.i > call.n_ops

\* Left-to-right fold of stand s's matrices over a row.
RECURSIVE FoldOps(_, _, _)
FoldOps(ops, s, row) ==
    IF ops = <<>> THEN row
    ELSE FoldOps(Tail(ops), s, MatMul(row, Matrix(opStore[Head(ops)][s])))

\* The mass the operators of a list, each applied to the row its
\* predecessors left, move from the indicator's sources to its sinks, counting
\* the operators whose tag is the indicator's process.
RECURSIVE TaggedMass(_, _, _, _, _)
TaggedMass(ops, tags, s, row, f) ==
    IF ops = <<>> THEN 0
    ELSE LET M == Matrix(opStore[Head(ops)][s])
             here == IF Head(tags) = FluxIndicators[f].process_id
                     THEN SetSum(FluxIndicators[f].source_pools,
                            [i \in Pools |->
                               SetSum(FluxIndicators[f].sink_pools,
                                 [j \in Pools |-> Flow(row[i], M, i, j)])])
                     ELSE 0
         IN  here + TaggedMass(Tail(ops), Tail(tags), s, MatMul(row, M), f)

\* C1: ComputePools applies the operations in the order of the caller's list:
\* at every point of a call, and so at its end, the pool row of every enabled
\* stand is the left-to-right fold of the operators applied so far over the row
\* the stand had when the call was made.
C1_AppliedInOrder ==
    (pc = "compute" /\ ~call_entry.fluxMat) =>
        \A s \in Stands :
            AskedEnabled(s) => pools[s] = FoldOps(AppliedOps, s, call_entry.pools[s])

\* A finished ComputePools call of two operators whose order matters.
C1_Witness ==
    /\ CallDone
    /\ ~call_entry.fluxMat
    /\ call.n_ops = 2
    /\ \E s \in Stands :
          /\ AskedEnabled(s)
          /\ pools[s] # FoldOps(Reverse(call_entry.ops), s, call_entry.pools[s])
          /\ pools[s] # call_entry.pools[s]

\* C2: a stand whose enabled flag is 0 has the pool row and the flux row it
\* had when the call was made, at every point of a ComputePools or ComputeFlux
\* call and after it.
C2_DisabledUnchanged ==
    (pc \in {"compute", "raised"}) =>
        \A s \in Stands :
            ~AskedEnabled(s) =>
                pools[s] = call_entry.pools[s] /\ flux[s] = call_entry.flux[s]

\* A finished ComputeFlux call that changed the pools and the flux of one
\* stand and had another stand disabled.
C2_Witness ==
    /\ CallDone
    /\ call_entry.fluxMat
    /\ call.n_ops >= 1
    /\ \E s, t \in Stands :
          /\ ~AskedEnabled(s)
          /\ AskedEnabled(t)
          /\ pools[t] # call_entry.pools[t]
          /\ flux[t] # call_entry.flux[t]

\* C9: ComputeFlux never resets flux: at every point of a call, and so at its
\* end, every flux cell is its value at the call's entry plus the mass moved
\* so far by the operators whose tag is the indicator's process (nothing for
\* a disabled stand, nothing when the wrapper raises).
C9_FluxAccumulates ==
    ((pc \in {"compute", "raised"}) /\ call_entry.fluxMat) =>
        \A s \in Stands : \A f \in Indicators :
            flux[s][f] = call_entry.flux[s][f]
                         + (IF AskedEnabled(s) /\ pc = "compute"
                            THEN TaggedMass(AppliedOps, AppliedTags, s,
                                            call_entry.pools[s], f)
                            ELSE 0)

\* The second of two calls has ended: it found flux non-zero and added to an
\* indicator, while another indicator, matched by no operator, kept its value.
C9_Witness ==
    /\ CallDone
    /\ call.ret = "done"
    /\ call_entry.fluxMat
    /\ \E s \in Stands : \E f, g \in Indicators :
          /\ call_entry.flux[s][f] > 0
          /\ flux[s][f] > call_entry.flux[s][f]
          /\ call_entry.flux[s][g] > 0
          /\ flux[s][g] = call_entry.flux[s][g]

(***************************************************************************)
(* Claims about spinup.                                                    *)
(***************************************************************************)
\* C3: once a stand's SpinupState is End, no step of the spinup call changes
\* its pool row.
C3_EndUntouched ==
    [][\A s \in Stands : spinup_state[s] = "End" => pools'[s] = pools[s]]_vars

\* The whole schedule has been applied while one stand was End and another
\* was not, and the pools of the unfinished stand changed.
C3_Witness ==
    /\ CallDone
    /\ call.n_ops = Len(opSchedule)
    /\ \E s, t \in Stands :
          /\ spinup_state[s] = "End"
          /\ spinup_state[t] # "End"
          /\ pools[t] # call_entry.pools[t]

\* C4: a stand in AnnualProcesses whose age has reached return_interval goes
\* to LastPassEvent if the slow-pool difference is small or rotation_num >=
\* max_rotations, and to HistoricalEvent otherwise.
C4_ConvergenceTest ==
    [][pc = "advance" =>
         \A s \in Stands :
            (spinup_state[s] = "AnnualProcesses"
               /\ age[s] >= parameters[s].return_interval) =>
                spinup_state'[s] =
                    IF small_slow_diff(lastRotationSlowC[s], slowPools[s])
                       \/ rotation[s] >= parameters[s].max_rotations
                    THEN "LastPassEvent"
                    ELSE "HistoricalEvent"]_vars

\* C5: the loop exits when the configured iteration cap is reached: no
\* iteration is under way with the counter at or beyond the cap.
C5_ExitsAtCap ==
    (pc \in {"build", "compute", "end_step"}) => iteration < IterationCap

\* C6: once the iteration cap has been reached and the loop has tested it,
\* every stand is End.
C6_ForcedToEndAtCap ==
    (iteration >= IterationCap /\ pc # "advance") =>
        \A s \in Stands : spinup_state[s] = "End"

\* C7: the rotation counter of a stand never exceeds its max_rotations.
C7_RotationBounded ==
    \A s \in Stands : rotation[s] <= parameters[s].max_rotations

StepOps == <<"disturbance">> \o annual_process_opSchedule

\* C10: after the two flux calls of a step, each indicator of a stand holds
\* the mass moved between its source and sink pools by the operators of its
\* process, each operator counted once: the disturbance alone for a disabled
\* stand, the disturbance and the annual processes for an enabled one.
C10_StepFluxIsTaggedMass ==
    (pc = "end_step_of_year") =>
        \A s \in Stands : \A f \in Indicators :
            flux[s][f] =
                IF enabled[s] # 0
                THEN TaggedMass(StepOps, ProcessesOf(StepOps), s, entry_pools[s], f)
                ELSE TaggedMass(<<"disturbance">>, ProcessesOf(<<"disturbance">>), s,
                                entry_pools[s], f)

\* The second step has made its two calls: flux was non-zero when the step
\* began, and an enabled stand has disturbance, growth and turnover flux.
C10_Witness ==
    /\ pc = "end_step_of_year"
    /\ iteration = 1
    /\ \E s \in Stands :
          /\ enabled[s] # 0
          /\ flux[s]["DisturbanceEmission"] > 0
          /\ flux[s]["NPP"] > 0
          /\ flux[s]["TurnoverInput"] > 0


\* C11: the first flux call of a step holds the disturbance operator alone,
\* tagged with the disturbance process, and no enabled vector; when it ends,
\* every stand, enabled or not, has the disturbance matrix applied to the pools
\* the step began with and the mass it moved recorded in flux.
C11_DisturbanceUnmasked ==
    (pc = "compute" /\ call.ret = "annual") =>
        /\ call.ops_p = <<"disturbance">>
        /\ call.op_process_p = <<opProcesses["disturbance"]>>
        /\ ~call.enabled.given
        /\ call.i > call.n_ops =>
              \A s \in Stands :
                 /\ pools[s] = MatMul(entry_pools[s], Matrix(opStore["disturbance"][s]))
                 /\ \A f \in Indicators :
                       flux[s][f] = TaggedMass(<<"disturbance">>,
                                               <<opProcesses["disturbance"]>>, s,
                                               entry_pools[s], f)

\* The disturbance call has ended for a disabled stand whose pools it changed
\* and whose disturbance flux it recorded.
C11_Witness ==
    /\ pc = "compute"
    /\ call.ret = "annual"
    /\ call.i > call.n_ops
    /\ \E s \in Stands :
          /\ enabled[s] = 0
          /\ pools[s] # entry_pools[s]
          /\ flux[s]["DisturbanceEmission"] > 0


(***************************************************************************)
(* Claims about failures.                                                  *)
(***************************************************************************)
\* C12: when a spinup or step call is over, by return or by an exception, no
\* matrix block it allocated is still allocated.
C12_BlocksReleased ==
    (pc \in {"spinup", "returned", "step", "stepped", "failed"}) => allocated = {}

\* C13: when the kernel has reported a failure in ComputePools or ComputeFlux
\* the error has left the enclosing call, and from then on no operator is
\* applied and no end-of-step update is made: pools, flux, age, the slow pool
\* record, the spinup state and the iteration count stay as they are.
C13_FailureStopsTheCall ==
    [][err = "RuntimeError" =>
         /\ pc = "failed"
         /\ UNCHANGED <<pools, flux, age, slowPools, spinup_state, rotation, iteration>>]_vars

\* The kernel failed in a later iteration of spinup, part of the schedule
\* applied, with a stand that is not End.
C13_Witness ==
    /\ pc = "failed"
    /\ err = "RuntimeError"
    /\ iteration >= 1
    /\ \E s \in Stands : spinup_state[s] # "End" /\ pools[s]["Biomass"] > 0


\* A stand of the batch has a disturbance type without a matrix, or a
\* classifier set without a yield curve.
UnknownTypeInBatch ==
    \E s \in Stands : parameters[s].disturbance_type \notin KnownDisturbanceTypes

InvalidStepInput ==
    \/ UnknownTypeInBatch
    \/ \E s \in Stands : inventory[s].classifiers \notin CurveClassifiers

SetMatrix(s) == Matrix(opStore["growth"][s])

\* Every operator applied so far has the matrix M for stand s.
AllApplied(s, M) ==
    \A k \in 1..Len(AppliedOps) : Matrix(opStore[AppliedOps[k]][s]) = M

\* C15: at every point of a call that has applied identity operators only, a
\* stand has the pool row it had when the call was made; and a stand whose
\* only content is Input = 1.0 keeps its row under the operator Input -> Input
\* with coefficient 1.0, however often it is applied.
C15_IdentityKeepsPools ==
    (pc = "compute") =>
        \A s \in Stands :
            /\ AllApplied(s, Identity) => pools[s] = call_entry.pools[s]
            /\ (call_entry.pools[s] = Row(Unit, 0, 0, 0)
                  /\ AllApplied(s, {<<"Input", "Input", 1, 1>>})) =>
                    pools[s] = Row(Unit, 0, 0, 0)

\* A call has applied the identity and then Input -> Input with coefficient
\* 1.0 to a stand that holds Input = 1.0 only, beside a stand with other pools.
C15_Witness ==
    /\ CallDone
    /\ call_entry.ops = <<"dom_decay", "growth">>
    /\ \E s, t \in Stands :
          /\ SetMatrix(s) = {<<"Input", "Input", 1, 1>>}
          /\ call_entry.pools[s] = Row(Unit, 0, 0, 0)
          /\ call_entry.pools[t] # Row(Unit, 0, 0, 0)

\* The block holds one triple (i, j, c) with i # j, and the call has applied
\* it once, to the row the call was made with.
SingleTripleApplied(s, i, j) ==
    /\ pc = "compute"
    /\ AppliedOps = <<"growth">>
    /\ i # j
    /\ \E v \in TripleValues : SetMatrix(s) = {<<i, j, v[1], v[2]>>}

\* C16: an operator made of the single triple (i, j, c) increases pools[j] by
\* pools[i] * c and leaves pools[i] at its previous value.
C16_SingleTripleAdds ==
    \A s \in Stands : \A i, j \in Pools :
        SingleTripleApplied(s, i, j) =>
            /\ pools[s][j] = call_entry.pools[s][j]
                               + Flow(call_entry.pools[s][i], SetMatrix(s), i, j)
            /\ pools[s][i] = call_entry.pools[s][i]

\* The triple has been applied to a stand whose pools i and j were not empty.
C16_Witness ==
    \E s \in Stands : \E i, j \in Pools :
        /\ SingleTripleApplied(s, i, j)
        /\ call_entry.pools[s][i] > 0
        /\ call_entry.pools[s][j] > 0

\* Scenario B: A is Input, B is Biomass; the stand holds A = 1.0, the call has
\* applied the block once.
ScenarioB(s) ==
    /\ pc = "compute"
    /\ AppliedOps = <<"growth">>
    /\ call_entry.pools[s] = Row(Unit, 0, 0, 0)

HalfAB == {<<"Input", "Biomass", 1, 2>>}

ScenarioC ==
    [Profile(0) EXCEPT !.return_interval = 10, !.max_rotations = 1,
                       !.historic_disturbance_type = 2]

ScenarioCInit ==
    /\ pools = [s \in Stands |-> Row(0, 0, 0, 0)]
    /\ flux = ZeroFlux
    /\ enabled = [s \in Stands |-> 1]
    /\ opStore = [x \in OpIds |-> [s \in Stands |-> "Identity"]]
    /\ allocated = {}
    /\ call = NoCall
    /\ pc = "spinup"
    /\ err = None
    /\ handle = LiveHandle
    /\ kernel = LiveKernel
    /\ call_entry = NoEntry
    /\ spinup_state = [s \in Stands |-> "AnnualProcesses"]
    /\ age = [s \in Stands |-> 0]
    /\ rotation = [s \in Stands |-> 0]
    /\ slowPools = [s \in Stands |-> 0]
    /\ lastRotationSlowC = [s \in Stands |-> 0]
    /\ disturbance_types = [s \in Stands |-> 0]
    /\ iteration = 0
    /\ \E c \in CurveChoices :
          inventory = [s \in Stands |-> [ScenarioC EXCEPT !.classifiers = c[s]]]
    /\ parameters = [s \in Stands |-> ScenarioC]
    /\ entry_pools = pools

ScenarioCSpec == ScenarioCInit /\ [][SpinupNext]_vars

\* The slow pools of the stand's last two rotations differ by the threshold
\* or more.
DiffAboveThreshold(s) == ~small_slow_diff(lastRotationSlowC[s], slowPools[s])

\* C18: in Scenario C a stand in its rotation 1 whose slow pools have not
\* converged enters LastPassEvent at the advance that finds its age at 10, and
\* at no other.
C18_LastPassAtReturnInterval ==
    [][pc = "advance" =>
         \A s \in Stands :
            (spinup_state[s] = "AnnualProcesses" /\ rotation[s] = 1
               /\ DiffAboveThreshold(s)) =>
                (spinup_state'[s] = "LastPassEvent" <=> age[s] = 10)]_vars


(***************************************************************************)
(* Several step calls on one model instance.  The error structure and the  *)
(* kernel's blocks belong to the instance; everything else is the caller's *)
(* and is drawn afresh for each call.  The kernel computes without         *)
(* failures of its own: a call fails on its inputs only.                   *)
(***************************************************************************)
\* The caller makes another call after one that failed, with fresh buffers,
\* for the same stands with the disturbance types and yield curves of another
\* year.
SessionNewCall ==
    /\ pc = "failed"
    /\ pools' \in {[s \in Stands |-> r] : r \in StepRows}
    /\ flux' = ZeroFlux
    /\ enabled' = [s \in Stands |-> 1]
    /\ opStore' = [x \in OpIds |-> [s \in Stands |-> "Identity"]]
    /\ call' = NoCall
    /\ pc' = "step"
    /\ call_entry' = NoEntry
    /\ age' = [s \in Stands |-> 0]
    /\ iteration' = 0
    /\ \E d \in [Stands -> StepTypes] : \E c \in CurveChoices :
          /\ inventory' = [s \in Stands |-> [inventory[s] EXCEPT !.classifiers = c[s]]]
          /\ parameters' = [s \in Stands |->
                               [parameters[s] EXCEPT !.disturbance_type = d[s]]]
    /\ entry_pools' = pools'
    /\ UNCHANGED wrapperVars
    /\ UNCHANGED <<err, allocated, spinup_state, rotation, slowPools,
                   lastRotationSlowC, disturbance_types>>

\* AllocateOp passes the wrapper's one error structure to the kernel and
\* raises if its Error field is not 0 afterwards.  The wrapper never resets
\* the field: if the kernel writes it on failure only, the value a failed call
\* left is read here.  (If the kernel zeroes it, StepBegin goes ahead.)
AllocateOpRaises ==
    /\ pc = "step"
    /\ err # None
    /\ pc' = "failed"
    /\ UNCHANGED wrapperVars
    /\ UNCHANGED <<pools, flux, enabled, opStore, call, err, call_entry, allocated,
                   spinupVars, inputVars>>

SessionNext ==
    \/ StepBegin
    \/ LibCBM_Compute
    \/ ComputeReturn
    \/ StepAnnualProcesses
    \/ StepEnd
    \/ SessionNewCall
    \/ AllocateOpRaises

SessionSpec == StepInit /\ [][SessionNext]_vars

StandMatrix_shared(op, s) == Matrix(opStore[op][1])

\* M = get_matrix(op, s)
StandMatrix(op, s) == Matrix(opStore[op][s])

ParallelLists == UNION {[1..n -> EngineOps] : n \in 1..MaxOps}

ParallelInit ==
    /\ pools \in [Stands -> EngineRows]
    /\ flux = ZeroFlux
    /\ enabled = [s \in Stands |-> 1]
    /\ opStore = EngineStore
    /\ allocated = OpIds
    /\ pc = "compute"
    /\ err = None
    /\ handle = LiveHandle
    /\ kernel = LiveKernel
    /\ \E ops \in ParallelLists, en \in Masks :
          /\ call = ComputeFlux(ops, ProcessesOf(ops), en)
                       @@ [i |-> 1, ret |-> "done", at |-> [s \in Stands |-> 1]]
          /\ call_entry = [pools |-> pools, flux |-> flux, ops |-> ops,
                           op_processes |-> ProcessesOf(ops), enabled |-> en,
                           fluxMat |-> TRUE]
    /\ spinup_state = [s \in Stands |-> "AnnualProcesses"]
    /\ age = [s \in Stands |-> 0]
    /\ rotation = [s \in Stands |-> 0]
    /\ slowPools = [s \in Stands |-> 0]
    /\ lastRotationSlowC = [s \in Stands |-> 0]
    /\ disturbance_types = [s \in Stands |-> 0]
    /\ iteration = 0
    /\ inventory = [s \in Stands |-> Profile(0)]
    /\ parameters = [s \in Stands |-> Profile(0)]
    /\ entry_pools = pools

\* One stand has its next operator applied to its own row:
\*     M = get_matrix(op, s); pools[s,:] = np.matmul(pools[s,:], M)
StandCompute ==
    /\ pc = "compute"
    /\ \E s \in Stands :
          /\ call.at[s] <= call.n_ops
          /\ LET op == call.ops_p[call.at[s]]
                 on == StandEnabled(call.enabled, s)
             IN  /\ pools' = [pools EXCEPT ![s] =
                                 IF on THEN KernelPoolRow(@, StandMatrix(op, s)) ELSE @]
                 /\ flux' = [flux EXCEPT ![s] =
                                IF on
                                THEN KernelFluxRow(@, pools[s], StandMatrix(op, s),
                                                   call.op_process_p[call.at[s]])
                                ELSE @]
          /\ call' = [call EXCEPT !.at[s] = @ + 1]
    /\ UNCHANGED wrapperVars
    /\ UNCHANGED <<enabled, opStore, allocated, pc, err, call_entry, spinupVars, inputVars>>

\* Every stand has had every operator: the call returns.
ParallelReturn ==
    /\ pc = "compute"
    /\ \A s \in Stands : call.at[s] > call.n_ops
    /\ pc' = call.ret
    /\ UNCHANGED wrapperVars
    /\ UNCHANGED <<pools, flux, enabled, opStore, allocated, call, err, call_entry,
                   spinupVars, inputVars>>

ParallelNext == StandCompute \/ ParallelReturn

ParallelSpec == ParallelInit /\ [][ParallelNext]_vars

\* The operators stand s has had so far, and their tags.
StandOps(s) == SubSeq(call_entry.ops, 1, call.at[s] - 1)

StandTags(s) == SubSeq(call_entry.op_processes, 1, call.at[s] - 1)

MaxCalls == 3

\* self.handle before Initialize, and what LibCBM_Initialize returns when it
\* fails.
NoHandle == "null"

\* The methods that test self.handle, with the entry point each one calls.
KernelEntry ==
    [AllocateOp |-> "LibCBM_Allocate_Op", FreeOp |-> "LibCBM_Free_Op",
     SetOp |-> "LibCBM_SetOp", ComputePools |-> "LibCBM_ComputePools",
     ComputeFlux |-> "LibCBM_ComputeFlux", InitializeCBM |-> "LibCBM_Initialize_CBM",
     AdvanceStandState |-> "LibCBM_AdvanceStandState", EndStep |-> "LibCBM_EndStep",
     InitializeLandState |-> "LibCBM_InitializeLandState",
     AdvanceSpinupState |-> "LibCBM_AdvanceSpinupState",
     EndSpinupStep |-> "LibCBM_EndSpinupStep",
     GetMerchVolumeGrowthOps |-> "LibCBM_GetMerchVolumeGrowthOps",
     GetTurnoverOps |-> "LibCBM_GetTurnoverOps", GetDecayOps |-> "LibCBM_GetDecayOps",
     GetDisturbanceOps |-> "LibCBM_GetDisturbanceOps"]

Operations == DOMAIN KernelEntry

\* Mutant: the test of self.handle never fails.
NotInitialized_never(h) == FALSE

\* if not self.handle:
NotInitialized(h) == h = NoHandle

\* The client may make another call.
ClientReady ==
    /\ pc \notin {"compute", "raised", "crashed"}
    /\ Len(kernel.entered) < MaxCalls

Entered(entry) == [kernel EXCEPT !.entered = Append(@, entry)]

\* raise AssertionError("dll not initialized"): nothing else happens.
RaiseAssertionError(op) ==
    /\ err' = "AssertionError"
    /\ pc' = op
    /\ UNCHANGED <<pools, flux, enabled, opStore, call, call_entry, allocated,
                   spinupVars, inputVars, wrapperVars>>

\* The kernel is entered with a handle it has freed and the process dies of
\* it, one of the outcomes of that call.
Crashed(entry) ==
    /\ ~kernel.live
    /\ kernel' = Entered(entry)
    /\ pc' = "crashed"
    /\ UNCHANGED <<pools, flux, enabled, opStore, call, err, call_entry, allocated,
                   handle, spinupVars, inputVars>>

\* The body of a method whose kernel call returns at once: the guard, then
\* the call.
Guarded(op, effect) ==
    /\ IF NotInitialized(handle)
       THEN RaiseAssertionError(op)
       ELSE \/ /\ effect
               /\ kernel' = Entered(KernelEntry[op])
               /\ err' = None
               /\ pc' = op
               /\ UNCHANGED <<handle, call, call_entry, enabled, flux, pools, iteration,
                              inputVars>>
            \/ Crashed(KernelEntry[op])

\* self.handle = LibCBM_Initialize(err, config); raise RuntimeError if the
\* kernel reports an error.  The handle is assigned before the error is read.
Initialize ==
    /\ ClientReady
    /\ ~kernel.live
    /\ \E ok \in BOOLEAN :
          /\ handle' = IF ok THEN LiveHandle ELSE NoHandle
          /\ kernel' = [Entered("LibCBM_Initialize") EXCEPT !.live = ok]
          /\ err' = IF ok THEN None ELSE "RuntimeError"
    /\ pc' = "Initialize"
    /\ UNCHANGED <<pools, flux, enabled, opStore, call, call_entry, allocated,
                   spinupVars, inputVars>>

AllocateOp ==
    /\ ClientReady
    /\ Guarded("AllocateOp",
               /\ \E x \in OpIds \ allocated : allocated' = allocated \cup {x}
               /\ UNCHANGED <<opStore, spinup_state, age, rotation, slowPools,
                              lastRotationSlowC, disturbance_types>>)

FreeOp ==
    /\ ClientReady
    /\ Guarded("FreeOp",
               /\ \E x \in {"growth", "disturbance"} : allocated' = allocated \ {x}
               /\ UNCHANGED <<opStore, spinup_state, age, rotation, slowPools,
                              lastRotationSlowC, disturbance_types>>)

SetOp ==
    /\ ClientReady
    /\ Guarded("SetOp",
               /\ opStore' = [opStore EXCEPT !["growth"] = [s \in Stands |-> "Grow"]]
               /\ UNCHANGED <<allocated, spinup_state, age, rotation, slowPools,
                              lastRotationSlowC, disturbance_types>>)

\* InitializeCBM, AdvanceStandState and InitializeLandState write kernel
\* configuration and stand variables that are no part of this model.
OtherOperation ==
    /\ ClientReady
    /\ \E op \in {"InitializeCBM", "AdvanceStandState", "InitializeLandState"} :
        Guarded(op, UNCHANGED <<opStore, allocated, spinup_state, age, rotation,
                                slowPools, lastRotationSlowC, disturbance_types>>)

WrapperEndStep ==
    /\ ClientReady
    /\ Guarded("EndStep",
               /\ age' = EndStep
               /\ UNCHANGED <<opStore, allocated, spinup_state, rotation, slowPools,
                              lastRotationSlowC, disturbance_types>>)

WrapperAdvanceSpinupState ==
    /\ ClientReady
    /\ Guarded("AdvanceSpinupState",
               /\ spinup_state' = AdvanceSpinupState.spinup_state
               /\ rotation' = AdvanceSpinupState.rotation
               /\ lastRotationSlowC' = AdvanceSpinupState.lastRotationSlowC
               /\ disturbance_types' = AdvanceSpinupState.disturbance_types
               /\ UNCHANGED <<opStore, allocated, age, slowPools>>)

WrapperEndSpinupStep ==
    /\ ClientReady
    /\ Guarded("EndSpinupStep",
               /\ age' = EndSpinupStep.age
               /\ slowPools' = EndSpinupStep.slowPools
               /\ UNCHANGED <<opStore, allocated, spinup_state, rotation,
                              lastRotationSlowC, disturbance_types>>)

\* The four builders.
WrapperGetOps ==
    /\ ClientReady
    /\ \E op \in {"GetMerchVolumeGrowthOps", "GetTurnoverOps", "GetDecayOps",
                "GetDisturbanceOps"} :
        Guarded(op,
                /\ opStore' =
                      CASE op = "GetMerchVolumeGrowthOps" ->
                             GetMerchVolumeGrowthOps(opStore, "growth")
                        [] op = "GetTurnoverOps" ->
                             GetTurnoverOps(opStore, "biomass_turnover", "snag_turnover")
                        [] op = "GetDecayOps" ->
                             GetDecayOps(opStore, "dom_decay", "slow_decay", "slow_mixing")
                        [] OTHER ->
                             GetDisturbanceOps(opStore, "disturbance",
                                               [s \in Stands |-> 1])
                /\ UNCHANGED <<allocated, spinup_state, age, rotation, slowPools,
                               lastRotationSlowC, disturbance_types>>)

\* ComputePools and ComputeFlux: the guard, then the marshalling and the
\* kernel call, which goes on in LibCBM_Compute.
WrapperCompute ==
    /\ ClientReady
    /\ \E op \in {"ComputePools", "ComputeFlux"} :
          IF NotInitialized(handle)
          THEN RaiseAssertionError(op)
          ELSE \/ /\ \E ops \in {<<"growth">>, <<"growth", "disturbance">>} :
                       \E tags \in TagLists(ops) :
                          IF op = "ComputePools"
                          THEN Invoke(ComputePools(ops, NoVector), op,
                                      [ops |-> ops, op_processes |-> <<>>,
                                       enabled |-> NoVector, fluxMat |-> FALSE])
                          ELSE Invoke(ComputeFlux(ops, tags, NoVector), op,
                                      [ops |-> ops, op_processes |-> tags,
                                       enabled |-> NoVector, fluxMat |-> TRUE])
                  /\ kernel' = IF err' = None THEN Entered(KernelEntry[op]) ELSE kernel
                  /\ UNCHANGED <<pools, flux, enabled, opStore, allocated, handle,
                                 spinupVars, inputVars>>
               \/ Crashed(KernelEntry[op])

\* __exit__: if self.handle: LibCBM_Free(err, self.handle), with an error
\* structure of its own.  self.handle is left as it is.
Exit ==
    /\ ClientReady
    /\ IF handle # NoHandle
       THEN \/ /\ kernel' = [Entered("LibCBM_Free") EXCEPT !.live = FALSE]
               /\ pc' = "__exit__"
               /\ UNCHANGED <<pools, flux, enabled, opStore, call, err, call_entry,
                              allocated, handle, spinupVars, inputVars>>
            \/ Crashed("LibCBM_Free")
       ELSE /\ pc' = "__exit__"
            /\ UNCHANGED <<pools, flux, enabled, opStore, call, err, call_entry,
                           allocated, spinupVars, inputVars, wrapperVars>>

WrapperInit ==
    /\ pools = [s \in Stands |-> Row(1, 2, 1, 0)]
    /\ flux = ZeroFlux
    /\ enabled = [s \in Stands |-> 1]
    /\ opStore = [x \in OpIds |-> [s \in Stands |-> "Identity"]]
    /\ allocated = {}
    /\ call = NoCall
    /\ pc = "constructed"
    /\ err = None
    /\ handle = NoHandle
    /\ kernel = [live |-> FALSE, entered |-> <<>>, freed |-> <<>>]
    /\ call_entry = NoEntry
    /\ spinup_state = [s \in Stands |-> "AnnualProcesses"]
    /\ age = [s \in Stands |-> 0]
    /\ rotation = [s \in Stands |-> 0]
    /\ slowPools = [s \in Stands |-> 0]
    /\ lastRotationSlowC = [s \in Stands |-> 0]
    /\ disturbance_types = [s \in Stands |-> 0]
    /\ iteration = 0
    /\ inventory = [s \in Stands |-> Profile(0)]
    /\ parameters = [s \in Stands |-> Profile(0)]
    /\ entry_pools = pools

WrapperNext ==
    \/ Initialize
    \/ AllocateOp
    \/ FreeOp
    \/ SetOp
    \/ OtherOperation
    \/ WrapperEndStep
    \/ WrapperAdvanceSpinupState
    \/ WrapperEndSpinupStep
    \/ WrapperGetOps
    \/ WrapperCompute
    \/ LibCBM_Compute
    \/ ComputeReturn

WrapperSpec == WrapperInit /\ [][WrapperNext]_vars


LengthMismatch ==
    /\ pc \in {"compute", "raised"}
    /\ call_entry.fluxMat
    /\ Len(call_entry.op_processes) # Len(call_entry.ops)

\* C22: a ComputeFlux call with op_processes of another length than ops
\* raises ValueError: nothing is handed to the kernel, and pools and flux are
\* as they were when the call was made.
C22_LengthMismatchRaises ==
    LengthMismatch =>
        /\ pc = "raised"
        /\ err = "ValueError"
        /\ call.n_ops = 0 /\ call.ops_p = <<>>
        /\ pools = call_entry.pools
        /\ flux = call_entry.flux

\* The second call of a client is such a call, made with operators that would
\* change pools and flux, after a first call that changed both.
C22_Witness ==
    /\ LengthMismatch
    /\ call.ret = "done"
    /\ call_entry.ops = <<"growth", "disturbance">>
    /\ flux # ZeroFlux
    /\ \E s \in Stands : pools[s] # entry_pools[s]


C24_SpinupOperatorOrder ==
    [][LET order == <<"growth", "snag_turnover", "biomass_turnover", "growth",
                      "dom_decay", "slow_decay", "slow_mixing", "disturbance">>
       IN  /\ pc' = "compute" =>
                 /\ call'.ops_p = order
                 /\ call'.i \in 1..9
                 /\ pc # "compute" => (call'.i = 1 /\ pools' = call_entry'.pools)
           /\ (pc = "compute" /\ pc' = "compute") =>
                 /\ call'.i = call.i + 1
                 /\ \A s \in Stands :
                       AskedEnabled(s) =>
                          pools'[s] = MatMul(pools[s],
                                             Matrix(opStore[order[call.i]][s]))]_vars

\* The eight operators have been applied to a stand in its historical event,
\* whose disturbance, applied last, found the biomass the year's growth and
\* turnover had left.
C24_Witness ==
    /\ CallDone
    /\ call.ret = "end_step"
    /\ \E s \in Stands :
          /\ spinup_state[s] = "HistoricalEvent"
          /\ pools[s] # call_entry.pools[s]
          /\ pools[s] # FoldOps(<<"disturbance">> \o SubSeq(opSchedule, 1, 7), s,
                                call_entry.pools[s])


\* The order of the phases of an iteration, whichever variables each writes:
\* the state advance and the finish test, then the building of the operators,
\* then their application, then the end-of-iteration update; when every stand
\* is End after the advance, the blocks are freed and spinup returns with no
\* operator built or applied.
PhaseOrder ==
    /\ pc = "advance" =>
          /\ pc' = IF \A s \in Stands : spinup_state'[s] = "End" THEN "free" ELSE "build"
          /\ UNCHANGED <<pools, opStore, age, slowPools>>
    /\ pc = "build" =>
          /\ pc' \in {"compute", "failed"}
          /\ UNCHANGED <<pools, spinup_state, age, slowPools, rotation,
                         lastRotationSlowC>>
    /\ pc = "compute" =>
          /\ pc' \in {"compute", "end_step", "failed"}
          /\ UNCHANGED <<opStore, spinup_state, age, slowPools, rotation,
                         lastRotationSlowC>>
    /\ pc = "end_step" =>
          /\ pc' = "advance"
          /\ UNCHANGED <<pools, opStore, spinup_state>>
    /\ pc = "free" =>
          /\ pc' = "returned"
          /\ UNCHANGED <<pools, opStore, spinupVars>>

\* C25 as stated: the phases are in this order, and age, the slow-pool
\* history and the rotation counter are updated in the last phase, after the
\* operators have been applied.
C25_PhasesAsStated ==
    [][/\ PhaseOrder
       /\ pc # "end_step" => UNCHANGED <<age, slowPools, lastRotationSlowC, rotation>>]_vars

\* C25 amended: the phases are in this order; the last phase updates age and
\* the slow pool of the year, while the rotation counter and the slow pool of
\* the last rotation are written by the state advance of the first phase.
C25_IterationPhases ==
    [][/\ PhaseOrder
       /\ pc # "end_step" => UNCHANGED <<age, slowPools>>
       /\ pc # "advance" => UNCHANGED <<rotation, lastRotationSlowC, spinup_state>>]_vars

\* Spinup has returned after an advance that found every stand at End, one
\* of them after a rotation of its own.
C25_Witness ==
    /\ pc = "returned"
    /\ \A s \in Stands : spinup_state[s] = "End"
    /\ \E s \in Stands : rotation[s] >= 1
    /\ iteration >= 3


(***************************************************************************)
(* Claims about the state advance.                                         *)
(***************************************************************************)
\* A stand in AnnualProcesses whose age is below its return_interval.
BelowReturnInterval(s) ==
    spinup_state[s] = "AnnualProcesses" /\ age[s] < parameters[s].return_interval

\* C26: on a state advance such a stand stays in AnnualProcesses, and the
\* convergence test is not computed for it.
C26_StaysBelowReturnInterval ==
    [][pc = "advance" =>
         \A s \in Stands :
            BelowReturnInterval(s) =>
                /\ spinup_state'[s] = "AnnualProcesses"
                /\ s \notin TestedStands]_vars


Finished == Cardinality({s \in Stands : spinup_state[s] = "End"})

MaxSlow == 300

\* class SpinupState(IntEnum)
SpinupState == {"AnnualProcesses", "HistoricalEvent", "LastPassEvent", "End"}

\* Slow pools of the last and of this rotation: both empty, equal, one unit
\* apart at a large sum, and far apart.
SlowPairs ==
    {<<0, 0>>, <<MaxSlow, MaxSlow>>, <<MaxSlow, MaxSlow - 1>>, <<0, MaxSlow>>}

\* The parameters of a moss stand.
MossParameters ==
    [Profile(0) EXCEPT !.return_interval = MaxReturnInterval,
                       !.max_rotations = MaxRotations]

\* The arrays np.where is handed: its arguments are evaluated before it is
\* called, so _small_slow_diff and the whole test are computed for the batch.
WhereArguments ==
    [at |-> "np.where",
     small_slow_diff |->
         [s \in TestedStands |-> small_slow_diff(lastRotationSlowC[s], slowPools[s])],
     condition |->
         [s \in TestedStands |->
             last_pass_condition(rotation[s], parameters[s].max_rotations,
                                 lastRotationSlowC[s], slowPools[s])]]

\* spinup: model_state.spinup_state = advance_spinup_state(...), then the
\* operators of the year.  In advance_spinup_state the second np.where is
\* closed after two arguments (the condition and x, without y), for which
\* numpy raises ValueError once the arguments are evaluated; the exception
\* leaves spinup before the assignment.
MossSpinup ==
    /\ pc = "moss_spinup"
    /\ call' = WhereArguments
    /\ err' = "ValueError"
    /\ pc' = "raised"
    /\ UNCHANGED spinup_state
    /\ UNCHANGED wrapperVars
    /\ UNCHANGED <<pools, flux, enabled, opStore, allocated, call_entry, age, rotation,
                   slowPools, lastRotationSlowC, disturbance_types, iteration,
                   inputVars, entry_pools>>

\* The attributes of a ModelContext that _initialize_disturbance_data is to
\* set, none of them set yet.
NewContext ==
    [at |-> "ModelContext", disturbance_matrices |-> None, disturbance_types |-> None,
     historic_dm_index |-> None, last_pass_dm_index |-> None]

\* ModelContext._initialize_disturbance_data: the matrices are read, then
\* np.zeros(self.n_stands, 0, dtype=np.uintp) is given dtype by position and
\* by name, for which numpy raises TypeError: the method is left before
\* either index is assigned.  (Both assignments that follow map
\* inventory.historical_disturbance_type.)
initialize_disturbance_data ==
    /\ pc = "moss_context"
    /\ call' = [NewContext EXCEPT !.disturbance_matrices = "initialize_dm"]
    /\ err' = "TypeError"
    /\ pc' = "raised"
    /\ UNCHANGED wrapperVars
    /\ UNCHANGED <<pools, flux, enabled, opStore, allocated, call_entry, spinupVars,
                   inputVars>>

MossInit ==
    /\ pools = [s \in Stands |-> Row(0, 0, 0, 0)]
    /\ flux = ZeroFlux
    /\ enabled = [s \in Stands |-> 1]
    /\ opStore = [x \in OpIds |-> [s \in Stands |-> "Identity"]]
    /\ allocated = {}
    /\ call = NoCall
    /\ pc \in {"moss_context", "moss_spinup"}
    /\ err = None
    /\ handle = LiveHandle
    /\ kernel = LiveKernel
    /\ call_entry = NoEntry
    /\ spinup_state \in [Stands -> SpinupState]
    /\ \E a \in 0..MaxReturnInterval : age = [s \in Stands |-> a]
    /\ \E r \in 0..MaxRotations : rotation = [s \in Stands |-> r]
    /\ \E p \in [Stands -> SlowPairs] :
          /\ lastRotationSlowC = [s \in Stands |-> p[s][1]]
          /\ slowPools = [s \in Stands |-> p[s][2]]
    /\ disturbance_types = [s \in Stands |-> 0]
    /\ iteration = 0
    /\ inventory = [s \in Stands |-> MossParameters]
    /\ parameters = [s \in Stands |-> MossParameters]
    /\ entry_pools = pools

MossNext ==
    \/ initialize_disturbance_data
    \/ MossSpinup

MossSpec == MossInit /\ [][MossNext]_vars

\* diff < 0.001 for diff = |last - this| / ((last + this) / 2), in integers:
\* 2000 |last - this| < last + this.
MeanQuotientBelowThreshold(last, this) ==
    2000 * Abs(last - this) < last + this

\* C29: for slow pools with a positive sum, the test the code computes for a
\* stand is true exactly when |last - this| / ((last + this)/2) < 0.001.
C29_ConvergenceQuotient ==
    (pc = "raised" /\ call.at = "np.where") =>
        \A s \in Stands :
            lastRotationSlowC[s] + slowPools[s] > 0 =>
                (call.small_slow_diff[s]
                    <=> MeanQuotientBelowThreshold(lastRotationSlowC[s], slowPools[s]))

\* C30: the state advance of spinup yields a state of SpinupState for every
\* stand of the batch, whatever its state, age, rotation and slow pools, and
\* spinup has stored it when it goes on to the operators of the year.
C30_AdvanceIsTotal ==
    [][pc = "moss_spinup" =>
          /\ pc' = "moss_flows"
          /\ \A s \in Stands : spinup_state'[s] \in SpinupState]_vars


(***************************************************************************)
(* Claims about the disturbance operator of a spinup iteration.            *)
(***************************************************************************)
\* C31: the disturbance operator built in a spinup iteration gives a stand in
\* HistoricalEvent the matrix of its historic disturbance type, a stand in
\* LastPassEvent the matrix of its last-pass type and every other stand the
\* identity, and the disturbance step of the schedule leaves the pools of a
\* stand in AnnualProcesses as they were.
C31_DisturbanceBySubState ==
    [][/\ (pc = "build" /\ pc' = "compute") =>
             \A s \in Stands :
                opStore'["disturbance"][s] =
                    CASE spinup_state[s] = "HistoricalEvent" ->
                           DisturbanceMatrix(inventory[s].historic_disturbance_type)
                      [] spinup_state[s] = "LastPassEvent" ->
                           DisturbanceMatrix(inventory[s].last_pass_disturbance_type)
                      [] OTHER -> "Identity"
       /\ (pc = "compute" /\ pc' = "compute" /\ call.ret = "end_step" /\ call.i = 8) =>
             \A s \in Stands :
                spinup_state[s] = "AnnualProcesses" => pools'[s] = pools[s]]_vars

\* The disturbance step of an iteration is over: it has left a stand in its
\* annual processes alone and has changed the pools of a stand in its
\* historical event.
C31_Witness ==
    /\ pc = "compute"
    /\ call.ret = "end_step"
    /\ call.i = 9
    /\ \E s, t \in Stands :
          /\ spinup_state[s] = "AnnualProcesses"
          /\ opStore["disturbance"][s] = "Identity"
          /\ pools[s]["Biomass"] > 0
          /\ spinup_state[t] = "HistoricalEvent"
          /\ opStore["disturbance"][t] = "Burn"
          /\ pools[t]["Biomass"] = 0


\* C32: once the moss context has initialised its disturbance data, the
\* matrix index of a stand's last pass is the one resolved from its last-pass
\* disturbance type and the index of its historical event the one resolved
\* from its historical type, so that the two differ when the types do.
C32_EventMatrices ==
    (pc = "raised" /\ call.at = "ModelContext") =>
        \A s \in Stands :
            /\ call.last_pass_dm_index # None
            /\ call.historic_dm_index # None
            /\ call.last_pass_dm_index[s]
                  = DisturbanceMatrix(inventory[s].last_pass_disturbance_type)
            /\ call.historic_dm_index[s]
                  = DisturbanceMatrix(inventory[s].historic_disturbance_type)


(***************************************************************************)
(* Claims about the flux of a step.                                        *)
(***************************************************************************)
\* C33: a step zeroes flux when it begins, before its first flux call has
\* applied anything, and nowhere else: flux is the same when the second call
\* is made as when the first ended, no step of a call lowers it, and when the
\* second call ends flux is what the first call left plus what the second
\* moved, the first call's part being what the disturbance moved from the
\* pools of this step.
C33_FluxZeroedOnce ==
    [][/\ pc = "step" => flux' = ZeroFlux
       /\ pc # "step" =>
             \A s \in Stands : \A f \in Indicators : flux'[s][f] >= flux[s][f]
       /\ pc = "annual" => flux' = flux
       /\ (pc = "compute" /\ pc' = "annual") =>
             \A s \in Stands : \A f \in Indicators :
                flux[s][f] = TaggedMass(<<"disturbance">>, ProcessesOf(<<"disturbance">>),
                                        s, entry_pools[s], f)
       /\ (pc = "compute" /\ pc' = "end_step_of_year") =>
             \A s \in Stands : \A f \in Indicators :
                flux[s][f] =
                    call_entry.flux[s][f]
                      + IF enabled[s] # 0
                        THEN TaggedMass(annual_process_opSchedule,
                                        ProcessesOf(annual_process_opSchedule), s,
                                        call_entry.pools[s], f)
                        ELSE 0]_vars

\* The second call of the second step has applied its operators: flux holds
\* what the disturbance call left and what the annual processes added since.
C33_Witness ==
    /\ pc = "compute"
    /\ call.ret = "end_step_of_year"
    /\ call.i > call.n_ops
    /\ iteration = 1
    /\ \E s \in Stands :
          /\ call_entry.flux[s]["DisturbanceEmission"] > 0
          /\ call_entry.flux[s]["NPP"] = 0
          /\ flux[s]["DisturbanceEmission"] = call_entry.flux[s]["DisturbanceEmission"]
          /\ flux[s]["NPP"] > 0


\* C34: the first flux call of a step holds the disturbance operator alone
\* and no tag but the disturbance tag 3; the second holds the six other
\* operators and the tags 1 and 2 only; and when the second call has applied
\* its operators, every indicator of every stand either is as the first call
\* left it or was left at zero by the first call.
C34_TagsDisjoint ==
    (pc = "compute") =>
        /\ call.ret = "annual" =>
              /\ Range(call.ops_p) = {"disturbance"}
              /\ Range(call.op_process_p) = {3}
        /\ call.ret = "end_step_of_year" =>
              /\ Range(call.ops_p) = OpIds \ {"disturbance"}
              /\ Range(call.op_process_p) = {1, 2}
              /\ \A s \in Stands : \A f \in Indicators :
                    \/ flux[s][f] = call_entry.flux[s][f]
                    \/ call_entry.flux[s][f] = 0

\* The second call has ended for a stand that was clearcut in the first: the
\* disturbance moved biomass to the slow pool, the pools of the turnover
\* indicator, which holds the turnover of the second call alone.
C34_Witness ==
    /\ pc = "compute"
    /\ call.ret = "end_step_of_year"
    /\ call.i > call.n_ops
    /\ \E s \in Stands :
          /\ parameters[s].disturbance_type = 2
          /\ entry_pools[s]["Biomass"] > 0
          /\ call_entry.flux[s]["TurnoverInput"] = 0
          /\ flux[s]["TurnoverInput"] > 0


HistoricalEvents(s) ==
    rotation[s] + (IF spinup_state[s] = "HistoricalEvent" THEN 1 ELSE 0)

\* C36: a stand has at most max_rotations historical events in a spinup.
C36_BoundedRotations ==
    \A s \in Stands : HistoricalEvents(s) <= parameters[s].max_rotations


(***************************************************************************)
(* A simulation: spinup, init, then MaxSteps steps on the same instance.   *)
(***************************************************************************)
\* CBM.init: InitializeLandState sets the stand state the steps start from;
\* every stand is enabled.
CbmInit ==
    /\ pc = "returned"
    /\ enabled' = [s \in Stands |-> 1]
    /\ iteration' = 0
    /\ pc' = "step"
    /\ UNCHANGED wrapperVars
    /\ UNCHANGED <<pools, flux, opStore, call, err, call_entry, allocated, spinup_state,
                   age, rotation, slowPools, lastRotationSlowC, disturbance_types,
                   inputVars>>

RunNext ==
    \/ SpinupBegin
    \/ SpinupAdvance
    \/ SpinupCompute
    \/ SpinupEndStep
    \/ SpinupReturn
    \/ CbmInit
    \/ StepBegin
    \/ StepAnnualProcesses
    \/ StepEnd
    \/ LibCBM_Compute
    \/ KernelFailure
    \/ ComputeReturn

RunSpec == SpinupInit /\ [][RunNext]_vars

\* C37: when spinup or step returns, the seven blocks it allocated are all
\* allocated until its FreeOp calls, which name each of them once and leave
\* none allocated; every operator handed to ComputePools or ComputeFlux and
\* every block a builder fills is allocated at that time.
C37_BlocksFreedOnce ==
    [][/\ (pc' = "returned" \/ pc = "end_step_of_year") =>
             /\ allocated = OpIds
             /\ Range(kernel'.freed) = OpIds
             /\ Len(kernel'.freed) = Cardinality(OpIds)
             /\ Cardinality(OpIds) = 7
             /\ allocated' = {}
       /\ pc' = "compute" => Range(call'.ops_p) \subseteq allocated'
       /\ opStore' # opStore => allocated' = OpIds]_vars

\* A spinup with a historical event and every step after it have returned,
\* the last step having freed its seven blocks.
C37_Witness ==
    /\ pc = "stepped"
    /\ iteration = MaxSteps
    /\ allocated = {}
    /\ kernel.freed = opNames
    /\ \E s \in Stands : rotation[s] >= 1


(***************************************************************************)
(* A client that also leaves the wrapper's context.                        *)
(***************************************************************************)
ContextNext ==
    \/ Initialize
    \/ Exit
    \/ AllocateOp
    \/ FreeOp
    \/ SetOp
    \/ OtherOperation
    \/ WrapperEndStep
    \/ WrapperAdvanceSpinupState
    \/ WrapperEndSpinupStep
    \/ WrapperGetOps
    \/ WrapperCompute
    \/ LibCBM_Compute
    \/ ComputeReturn

ContextSpec == WrapperInit /\ [][ContextNext]_vars

\* C38: the kernel is entered with the handle only while the handle is live:
\* every entry other than LibCBM_Initialize, LibCBM_Free included, is made
\* between a successful Initialize and the first release.
C38_HandleUsedWhileLive ==
    [][(kernel'.entered # kernel.entered
          /\ kernel'.entered[Len(kernel'.entered)] # "LibCBM_Initialize")
       => kernel.live]_vars


(***************************************************************************)
(* moss_c compute_pools with a kernel that may fail.  entry_pools is the   *)
(* array the caller passed, pools the array the kernel is handed.          *)
(***************************************************************************)
\* Mutant: the kernel is handed the caller's array itself.
CallerPools_aliased == pools

\* The caller's array: pools = pools.copy() binds the local name to a new
\* array, which is the one set up for the kernel and returned.
CallerPools == entry_pools

MossComputeNext ==
    \/ ApplyComputePools
    \/ LibCBM_Compute
    \/ KernelFailure
    \/ ComputeReturn

MossComputeSpec == ApplyInit /\ [][MossComputeNext]_vars

\* C39: no step of compute_pools, the failure of the kernel call included,
\* changes the array the caller passed.
C39_CallerPoolsKept ==
    [][CallerPools' = CallerPools]_vars

\* The kernel has failed after it applied an operator: the copy has changed,
\* the caller's array has not.
C39_Witness ==
    /\ pc = "failed"
    /\ err = "RuntimeError"
    /\ \E s \in Stands : pools[s] # entry_pools[s]


(***************************************************************************)
(* libcbm.input.sit.sit_reader.load_table.  The call record holds the      *)
(* process working directory, the caller's config and the locals of the    *)
(* call; home and given are the working directory and the config as the    *)
(* caller had them.                                                        *)
(***************************************************************************)
\* The directories there are; a config_dir may also be empty or name none.
Directories == {"home", "project"}

ConfigDirs == {"", "project", "missing"}

\* The keys a params dictionary may have.
ParamKeys == {"path", "sep"}

\* Mutant: the working directory is put back when the table was loaded only.
RestoredCwd_onSuccess(saved, current, result) ==
    IF result = "DataFrame" THEN saved ELSE current

\* finally: os.chdir(cwd)
RestoredCwd(saved, current, result) == saved

\* The caller's params after
\*     load_params = load_params.copy(); del load_params["path"]
\* the deletion is made in the copy.
CallerParams(params) == params

LoadTableInit ==
    /\ pools = [s \in Stands |-> Row(0, 0, 0, 0)]
    /\ flux = ZeroFlux
    /\ enabled = [s \in Stands |-> 1]
    /\ opStore = [x \in OpIds |-> [s \in Stands |-> "Identity"]]
    /\ allocated = {}
    /\ \E d \in Directories : \E cd \in ConfigDirs : \E keys \in SUBSET ParamKeys :
         \E t \in {"csv", "excel", "parquet"} : \E ok \in BOOLEAN :
          call = [at |-> "load_table", cwd |-> d, home |-> d,
                  config |-> [type |-> t, params |-> keys],
                  given |-> [type |-> t, params |-> keys],
                  config_dir |-> cd, readable |-> ok,
                  saved |-> None, load_params |-> None, path |-> None, result |-> None]
    /\ pc = "load_table"
    /\ err = None
    /\ handle = LiveHandle
    /\ kernel = LiveKernel
    /\ call_entry = NoEntry
    /\ spinup_state = [s \in Stands |-> "AnnualProcesses"]
    /\ age = [s \in Stands |-> 0]
    /\ rotation = [s \in Stands |-> 0]
    /\ slowPools = [s \in Stands |-> 0]
    /\ lastRotationSlowC = [s \in Stands |-> 0]
    /\ disturbance_types = [s \in Stands |-> 0]
    /\ iteration = 0
    /\ inventory = [s \in Stands |-> Profile(0)]
    /\ parameters = [s \in Stands |-> Profile(0)]
    /\ entry_pools = pools

LoadTableFrame ==
    /\ UNCHANGED wrapperVars
    /\ UNCHANGED <<pools, flux, enabled, opStore, allocated, err, call_entry, spinupVars,
                   inputVars>>

\* cwd = os.getcwd(); try: if config_dir: os.chdir(config_dir)
LoadTableEnter ==
    /\ pc = "load_table"
    /\ IF call.config_dir = ""
       THEN /\ call' = [call EXCEPT !.saved = call.cwd]
            /\ pc' = "reading"
       ELSE IF call.config_dir \in Directories
       THEN /\ call' = [call EXCEPT !.saved = call.cwd, !.cwd = call.config_dir]
            /\ pc' = "reading"
       ELSE /\ call' = [call EXCEPT !.saved = call.cwd, !.result = "FileNotFoundError"]
            /\ pc' = "finally"
    /\ LoadTableFrame

\* The branch of the table type: the path is made absolute in the working
\* directory of the moment, the params are copied and the copy, without its
\* path, is handed to the reader; any other type raises.
LoadTableRead ==
    /\ pc = "reading"
    /\ IF call.config.type \notin {"csv", "excel"}
       THEN call' = [call EXCEPT !.result = "NotImplementedError"]
       ELSE IF "path" \notin call.config.params
       THEN call' = [call EXCEPT !.result = "KeyError"]
       ELSE call' = [call EXCEPT
                        !.path = <<call.cwd, "path">>,
                        !.load_params = call.config.params \ {"path"},
                        !.config.params = CallerParams(call.config.params),
                        !.result = IF call.readable THEN "DataFrame" ELSE "ParserError"]
    /\ pc' = "finally"
    /\ LoadTableFrame

\* finally: os.chdir(cwd); the table is returned or the exception goes on.
LoadTableFinally ==
    /\ pc = "finally"
    /\ call' = [call EXCEPT !.cwd = RestoredCwd(call.saved, call.cwd, call.result)]
    /\ pc' = "left"
    /\ LoadTableFrame

LoadTableNext ==
    \/ LoadTableEnter
    \/ LoadTableRead
    \/ LoadTableFinally

LoadTableSpec == LoadTableInit /\ [][LoadTableNext]_vars

\* C40: when load_table is left, with a table or with an exception, the
\* working directory is the one the caller had, and the caller's config is at
\* every point of the call as it was given.
C40_LoadTableFrame ==
    /\ pc \in {"load_table", "reading", "finally", "left"} => call.config = call.given
    /\ pc = "left" => call.cwd = call.home

\* The reader has raised after the working directory was changed to the
\* config's directory and the params were copied.
C40_Witness ==
    /\ pc = "left"
    /\ call.result = "ParserError"
    /\ call.config_dir = "project"
    /\ call.home = "home"
    /\ call.path = <<"project", "path">>
    /\ call.load_params = {"sep"}
    /\ call.config.params = {"path", "sep"}

====
